---- MODULE Spec2Model ----
(***************************************************************************)
(* Quality audit form (src/app.py): the scoring loop of main_form, the     *)
(* duplicate checker is_duplicate_entity and the session flags that gate   *)
(* a submission to the record store, for one session and for two sessions  *)
(* on the same bucket.  Quality audit dashboard (src/Quality_Audit.py):    *)
(* the load of the bucket, the cleanup, the filters, the score summary,    *)
(* the parameter and Pareto tables and the daily, weekly and monthly       *)
(* summaries.                                                              *)
(*                                                                         *)
(* Text is modelled as a sequence of one-character strings, so that        *)
(* str.strip() and str.lower() are real conversions.  Names of parameters  *)
(* and sub-reasons are never converted by the code and stay TLA+ strings.  *)
(***************************************************************************)
EXTENDS Integers, Sequences, FiniteSets, TLC

VARIABLES
    \* ---- the audit form: rule table, widgets and what one script run computes
    scoring_rules,        \* load_scoring_rules(): sequence of [param, sub_dict]
    selected,             \* multiselect "<param>_reasons": param -> list of reasons
    ztp_flag,             \* selectbox "ztp_flag": "No" | "Yes"
    total_score,          \* total_score after the scoring loop
    fatal_error,          \* fatal_error after the scoring loop
    results,              \* results after the scoring loop
    final_score_display,  \* final_score_display
    overall_score,        \* the value st.metric("Overall Score", ...) shows
    \* ---- st.session_state and the text input of the ticket id
    logged_in,
    email_sent,
    entity_check,         \* "None" | "True" | "False"
    associate_email,      \* st.session_state.associate_info["email"]
    form_submitted,
    entity_id,            \* text_input "entity_id"
    check_outcome,        \* what the click on the check button did in this run
    submit_outcome,       \* the message the Submit Audit click showed in this run
    read_fault_seen,      \* history: some check swallowed a failed download
    last_check,           \* history: the last result a check gave since login,
                          \* the last upload or "Submit Another"
    sent_since,           \* history: Send Email built a mail since the last upload
    \* ---- the sessions of the server
    running,              \* the session whose script runs next: "A" | "B"
    peer,                 \* the state of the other session
    race,                 \* history: progress along check(A) check(B) submit(A) submit(B)
    \* ---- the bucket
    bucket,               \* blob name -> blob content
    \* ---- one run of the dashboard script (src/Quality_Audit.py)
    dash_pc,              \* the place the script has reached
    load_log,             \* what load_data_from_gcs met and which blobs it warned of
    df_raw,               \* the records load_data_from_gcs returned
    df,                   \* df after the cleanup and the date filter
    date_range,           \* the value of the date_input
    filters,              \* the four selectboxes of the sidebar
    df_filtered,          \* df_filtered
    summary,              \* avg_score, total_audits, ztp_count
    param_records,        \* param_records
    pareto_df,            \* pareto_df
    grouped               \* grouped_day, grouped_week, grouped_month

score_vars == << scoring_rules, selected, ztp_flag, total_score, fatal_error,
                 results, final_score_display, overall_score >>
session_vars == << logged_in, email_sent, entity_check, associate_email,
                   form_submitted, entity_id, check_outcome, submit_outcome,
                   read_fault_seen, last_check, sent_since >>
server_vars == << running, peer, race >>
dash_vars == << dash_pc, load_log, df_raw, df, date_range, filters, df_filtered,
               summary, param_records, pareto_df, grouped >>
vars == << score_vars, session_vars, server_vars, bucket, dash_vars >>

-----------------------------------------------------------------------------
(* Bounds of the model *)

\* number of parameters in a rule table drawn by InitScore
NumParams == 2
\* the largest deduction a rule table row carries
MaxDeduction == 7
\* number of audit blobs one run of the session model may upload
MaxAudits == 2
\* longest ticket id the duplicate checker is asked about
MaxStrLen == 2
\* number of blobs in a bucket drawn by InitDup
MaxBlobs == 2
\* number of blobs in a bucket drawn by InitDash
MaxRecords == 3

-----------------------------------------------------------------------------
(* Generic helpers *)

Range(s) == { s[i] : i \in 1..Len(s) }

Max2(a, b) == IF a >= b THEN a ELSE b

\* list membership, `x in lst`
In(x, lst) == \E i \in 1..Len(lst) : lst[i] = x

\* the sub-lists of lst that keep its order (what a multiselect can hold when
\* the reasons are picked in the order they are offered)
RECURSIVE SubSeqs(_)
SubSeqs(lst) ==
    IF lst = << >> THEN { << >> }
    ELSE LET rest == SubSeqs(Tail(lst))
         IN  rest \cup { << Head(lst) >> \o r : r \in rest }

-----------------------------------------------------------------------------
(* The scoring engine, main_form lines 298-355 *)

Compliant == "Compliant"

\* parameter_scores, the maximum score of each parameter
parameter_scores(param) ==
    CASE param = "Opening and Closing"             -> 9
      [] param = "Communication and Language"      -> 30
      [] param = "Empathy and Professionalism"     -> 21
      [] param = "Correct and Complete Resolution" -> 0
      [] param = "Proactive Assistance"            -> 24
      [] param = "Hold and Dead air"               -> 8
      [] param = "Right action taken"              -> 0
      [] param = "Properties"                      -> 8
      [] param = "PCIR"                            -> 0

\* the hardcoded list of line 328
KeyParams == { "Right action taken", "Correct and Complete Resolution" }

\* list(sub_dict.keys())
SubParams(sub_dict) == [ i \in 1..Len(sub_dict) |-> sub_dict[i].sub ]

\* get_safe_multiselect_options
get_safe_multiselect_options(options_list) ==
    IF ~In(Compliant, options_list)
    THEN << Compliant >> \o options_list
    ELSE options_list

\* the options the multiselect of one parameter offers (lines 320, 324)
Options(sub_dict) == get_safe_multiselect_options(SubParams(sub_dict))

\* sub_dict.get(sub_param, {"score": 0, "fatal": False})
SubInfo(sub_dict, sub_param) ==
    IF \E i \in 1..Len(sub_dict) : sub_dict[i].sub = sub_param
    THEN LET i == CHOOSE j \in 1..Len(sub_dict) : sub_dict[j].sub = sub_param
         IN  [ score |-> sub_dict[i].score, fatal |-> sub_dict[i].fatal ]
    ELSE [ score |-> 0, fatal |-> FALSE ]

\* line 328: the parameter-level fatal rule
ForceFatal(param, sel) ==
    param \in KeyParams /\ ~In(Compliant, sel)

\* lines 335-340: the loop over the selected reasons, from position i on, on
\* the running pair [score, fatal]
RECURSIVE DeductLoopNoFatal(_, _, _, _)
DeductLoopNoFatal(sub_dict, sel, i, acc) ==
    IF i > Len(sel) THEN acc
    ELSE IF sel[i] # Compliant
         THEN DeductLoopNoFatal(sub_dict, sel, i + 1,
                  [ score |-> acc.score - SubInfo(sub_dict, sel[i]).score,
                    fatal |-> acc.fatal ])
         ELSE DeductLoopNoFatal(sub_dict, sel, i + 1, acc)
RECURSIVE DeductLoopFirstOnly(_, _, _, _)
DeductLoopFirstOnly(sub_dict, sel, i, acc) ==
    IF i > Len(sel) THEN acc
    ELSE IF sel[i] # Compliant
         THEN LET sub_info == SubInfo(sub_dict, sel[i])
              IN  [ score |-> acc.score - sub_info.score,
                    fatal |-> acc.fatal \/ sub_info.fatal ]
         ELSE DeductLoopFirstOnly(sub_dict, sel, i + 1, acc)
RECURSIVE DeductLoop(_, _, _, _)
DeductLoop(sub_dict, sel, i, acc) ==
    IF i > Len(sel) THEN acc
    ELSE IF sel[i] # Compliant
         THEN LET sub_info == SubInfo(sub_dict, sel[i])
              IN  DeductLoop(sub_dict, sel, i + 1,
                      [ score |-> acc.score - sub_info.score,
                        fatal |-> acc.fatal \/ sub_info.fatal ])
         ELSE DeductLoop(sub_dict, sel, i + 1, acc)

\* lines 331-341: the score of one parameter and whether a selected reason
\* is fatal, as the pair [score, fatal]
ScoreParamNoFloor(param, sub_dict, sel) ==
    IF Range(sel) = { Compliant }
    THEN [ score |-> parameter_scores(param), fatal |-> FALSE ]
    ELSE DeductLoop(sub_dict, sel, 1,
             [ score |-> parameter_scores(param), fatal |-> FALSE ])
ScoreParamCompliantZero(param, sub_dict, sel) ==
    IF Range(sel) = { Compliant }
    THEN [ score |-> 0, fatal |-> FALSE ]
    ELSE LET r == DeductLoop(sub_dict, sel, 1,
                      [ score |-> parameter_scores(param), fatal |-> FALSE ])
         IN  [ score |-> Max2(0, r.score), fatal |-> r.fatal ]
ScoreParam(param, sub_dict, sel) ==
    IF Range(sel) = { Compliant }
    THEN [ score |-> parameter_scores(param), fatal |-> FALSE ]
    ELSE LET r == DeductLoop(sub_dict, sel, 1,
                      [ score |-> parameter_scores(param), fatal |-> FALSE ])
         IN  [ score |-> Max2(0, r.score), fatal |-> r.fatal ]

\* ", ".join(selected): the pieces of the joined text
RECURSIVE JoinReasons(_)
JoinReasons(sel) ==
    IF Len(sel) = 0 THEN << >>
    ELSE IF Len(sel) = 1 THEN sel
    ELSE << Head(sel), ", " >> \o JoinReasons(Tail(sel))

\* lines 319-350: the loop over the parameters of the rule table, from
\* position i on, on the running [total_score, fatal_error, results]
RECURSIVE ScoringLoop(_, _, _, _)
ScoringLoop(rules, sel, i, acc) ==
    IF i > Len(rules) THEN acc
    ELSE LET param == rules[i].param
             r     == ScoreParam(param, rules[i].sub_dict, sel[param])
         IN  ScoringLoop(rules, sel, i + 1,
                 [ total_score |-> acc.total_score + r.score,
                   fatal_error |-> acc.fatal_error
                                     \/ ForceFatal(param, sel[param])
                                     \/ r.fatal,
                   results     |-> Append(acc.results,
                                       [ Parameter        |-> param,
                                         Selected_Reasons |-> JoinReasons(sel[param]),
                                         Score            |-> r.score ]) ])

\* line 317 and the loop
RunScoring(rules, sel) ==
    ScoringLoop(rules, sel, 1,
        [ total_score |-> 0, fatal_error |-> FALSE, results |-> << >> ])

\* line 354
FinalScoreIgnoresFatal(ztp, fatal, total) ==
    IF ztp = "Yes" THEN 0 ELSE total
FinalScoreDisplay(ztp, fatal, total) ==
    IF ztp = "Yes" \/ fatal THEN 0 ELSE total

\* line 355: what the metric shows; tag "Score" with value n is the text "n%"
OverallScore(ztp, fatal, total) ==
    [ tag   |-> IF ztp = "Yes" THEN "ZTP" ELSE IF fatal THEN "Fatal" ELSE "Score",
      value |-> FinalScoreDisplay(ztp, fatal, total) ]

-----------------------------------------------------------------------------
(* Text: str.strip() and str.lower() on sequences of characters *)

Chars == { "a", "A", "b", " " }

\* str.lower() on one character
LowerChar(c) ==
    LET upper == << "A", "B", "C", "D", "E", "F", "G", "H", "I", "J", "K", "L", "M",
                    "N", "O", "P", "Q", "R", "S", "T", "U", "V", "W", "X", "Y", "Z" >>
        lower == << "a", "b", "c", "d", "e", "f", "g", "h", "i", "j", "k", "l", "m",
                    "n", "o", "p", "q", "r", "s", "t", "u", "v", "w", "x", "y", "z" >>
    IN  IF \E i \in 1..Len(upper) : upper[i] = c
        THEN lower[CHOOSE i \in 1..Len(upper) : upper[i] = c]
        ELSE c

IsSpace(c) == c = " "

\* str.lower()
Lower(s) == [ i \in 1..Len(s) |-> LowerChar(s[i]) ]

RECURSIVE LStrip(_)
LStrip(s) == IF s # << >> /\ IsSpace(Head(s)) THEN LStrip(Tail(s)) ELSE s

RECURSIVE RStrip(_)
RStrip(s) ==
    IF s # << >> /\ IsSpace(s[Len(s)]) THEN RStrip(SubSeq(s, 1, Len(s) - 1)) ELSE s

\* str.strip()
Strip(s) == RStrip(LStrip(s))

\* a.strip().lower() == b.strip().lower()
SameText(a, b) == Lower(Strip(a)) = Lower(Strip(b))

\* the texts of at most n characters
RECURSIVE Texts(_)
Texts(n) ==
    IF n = 0 THEN { << >> }
    ELSE LET shorter == Texts(n - 1)
         IN  shorter \cup { Append(t, c) : t \in shorter, c \in Chars }

-----------------------------------------------------------------------------
(* The bucket: blob name -> blob content *)

\* a blob name, by what the code reads of it: whether it ends in ".json".
\* Listing order is the order of the names: prefix, then number.
BlobName(prefix, id, ext) == [ prefix |-> prefix, id |-> id, ext |-> ext ]

PrefixRank(prefix) ==
    CASE prefix = ".keep_"   -> 0
      [] prefix = "archive_" -> 1
      [] prefix = "audit_"   -> 2
      [] prefix = "export_"  -> 3

NameBefore(a, b) ==
    \/ PrefixRank(a.prefix) < PrefixRank(b.prefix)
    \/ a.prefix = b.prefix /\ a.id < b.id

\* blob.name.endswith(".json")
EndsWithJson(name) == name.ext = ".json"

\* the text of a blob, by what json.loads makes of it: kind "object" is a
\* JSON object with the fields present in it, kind "array" is valid JSON that
\* is no object, kind "invalid" is text json.loads rejects
Content(kind, has_ticket, ticket, has_email, email, ztp, total, params) ==
    [ kind |-> kind, has_ticket |-> has_ticket, ticket |-> ticket,
      has_email |-> has_email, email |-> email,
      ztp |-> ztp, total |-> total, params |-> params ]

\* bucket.list_blobs(): the names in listing order
RECURSIVE ListBlobs(_)
ListBlobs(names) ==
    IF names = { } THEN << >>
    ELSE LET first == CHOOSE n \in names : \A m \in names \ { n } : NameBefore(n, m)
         IN  << first >> \o ListBlobs(names \ { first })

\* what one pass over the bucket meets: each blob with its text and whether
\* download_as_text() raises for it
Listing(bkt, unreadable) ==
    LET names == ListBlobs(DOMAIN bkt)
    IN  [ i \in 1..Len(names) |->
            [ name |-> names[i], content |-> bkt[names[i]],
              readable |-> names[i] \notin unreadable ] ]

-----------------------------------------------------------------------------
(* The duplicate checker, main_form lines 257-274 *)

\* str(data.get("Freshdesk-Ticket or Spriklr-Case-ID", ""))
TicketOf(data) == IF data.has_ticket THEN data.ticket ELSE << >>
\* str(data.get("Associate Email ID", ""))
EmailOf(data) == IF data.has_email THEN data.email ELSE << >>

\* lines 267-270: the comparison of one record with the arguments
KeyMatchesEither(data, entity_id_arg, email_arg) ==
    \/ Lower(Strip(TicketOf(data))) = Lower(Strip(entity_id_arg))
    \/ Lower(Strip(EmailOf(data))) = Lower(Strip(email_arg))
KeyMatches(data, entity_id_arg, email_arg) ==
    /\ Lower(Strip(TicketOf(data))) = Lower(Strip(entity_id_arg))
    /\ Lower(Strip(EmailOf(data))) = Lower(Strip(email_arg))

\* lines 262-274: the loop over the listed blobs from position i on.  The
\* result is [found, read_failed]: found is the value the function returns,
\* read_failed tells whether the bare except swallowed a failed download.
\* A blob that is no JSON object also ends in the except branch.
RECURSIVE ScanBlobs(_, _, _, _, _)
ScanBlobs(entity_id_arg, email_arg, blobs, i, read_failed) ==
    IF i > Len(blobs) THEN [ found |-> FALSE, read_failed |-> read_failed ]
    ELSE IF ~EndsWithJson(blobs[i].name)
         THEN ScanBlobs(entity_id_arg, email_arg, blobs, i + 1, read_failed)
    ELSE IF ~blobs[i].readable
         THEN ScanBlobs(entity_id_arg, email_arg, blobs, i + 1, TRUE)
    ELSE IF blobs[i].content.kind # "object"
         THEN ScanBlobs(entity_id_arg, email_arg, blobs, i + 1, read_failed)
    ELSE IF KeyMatches(blobs[i].content, entity_id_arg, email_arg)
         THEN [ found |-> TRUE, read_failed |-> read_failed ]
    ELSE ScanBlobs(entity_id_arg, email_arg, blobs, i + 1, read_failed)

\* is_duplicate_entity, given what list_blobs() returned
is_duplicate_entity(entity_id_arg, email_arg, blobs) ==
    ScanBlobs(entity_id_arg, email_arg, blobs, 1, FALSE).found

\* what a click on the check button did: result is "none" (no click in this
\* run), "warn_id", "warn_email", "exception" (list_blobs raised and the run
\* was aborted), "duplicate" or "unique"
CheckOutcome(result, list_failed, read_failed) ==
    [ result |-> result, list_failed |-> list_failed, read_failed |-> read_failed ]

NoCheck == CheckOutcome("none", FALSE, FALSE)

\* the dashboard has not loaded the bucket
NoLoad == [ list_ok |-> TRUE, unreadable |-> { }, warned |-> << >> ]

-----------------------------------------------------------------------------
(* Rule tables and selections the scoring model is run on *)

\* the sub-reason of the spec's scenario and a second one
ReasonA == "Script & Guidelines adherence"
ReasonB == "Incorrect information shared"

Row(sub, score, fatal) == [ sub |-> sub, score |-> score, fatal |-> fatal ]

\* the sub-reason tables a parameter may carry: ReasonA deducts 3 and is not
\* fatal; ReasonB varies; the file may or may not list "Compliant" itself
SubDicts ==
    { << Row(ReasonA, 3, FALSE), Row(ReasonB, MaxDeduction, FALSE) >>,
      << Row(ReasonA, 3, FALSE), Row(ReasonB, MaxDeduction, TRUE) >>,
      << Row(ReasonA, 3, FALSE), Row(Compliant, 0, FALSE), Row(ReasonB, 0, TRUE) >> }

\* the parameters a drawn rule table takes its rows from, in file order
ModelParams ==
    << "Opening and Closing", "Correct and Complete Resolution", "Right action taken" >>

\* the rule tables: NumParams parameters in file order, each with a table
RuleTables ==
    { t \in UNION { [ 1..NumParams -> [ param : Range(ModelParams), sub_dict : SubDicts ] ] } :
        \E s \in SubSeqs(ModelParams) :
            /\ Len(s) = NumParams
            /\ \A i \in 1..NumParams : t[i].param = s[i] }

ParamsOf(rules) == { rules[i].param : i \in 1..Len(rules) }
SubDictOf(rules, param) ==
    rules[CHOOSE i \in 1..Len(rules) : rules[i].param = param].sub_dict

\* multiselect(..., default=["Compliant"])
DefaultSelection(rules) == [ p \in ParamsOf(rules) |-> << Compliant >> ]

\* the state one run of the script leaves in the scoring variables
Rerun(rules, sel, ztp) ==
    \E out \in { RunScoring(rules, sel) } :
        /\ total_score' = out.total_score
        /\ fatal_error' = out.fatal_error
        /\ results' = out.results
        /\ final_score_display' = FinalScoreDisplay(ztp, out.fatal_error, out.total_score)
        /\ overall_score' = OverallScore(ztp, out.fatal_error, out.total_score)

\* the rule table of the session model
SessionRules ==
    << [ param |-> "Opening and Closing",
         sub_dict |-> << Row(ReasonA, 3, FALSE), Row(ReasonB, MaxDeduction, TRUE) >> ],
       [ param |-> "Right action taken",
         sub_dict |-> << Row(ReasonA, 3, FALSE), Row(ReasonB, MaxDeduction, FALSE) >> ] >>

\* the state of one session: st.session_state, the widget values of the form
\* and the history kept for it
SessionState(li, es, ec, ae, fs, id, co, so, lc, ss, sel, ztp) ==
    [ logged_in |-> li, email_sent |-> es, entity_check |-> ec,
      associate_email |-> ae, form_submitted |-> fs, entity_id |-> id,
      check_outcome |-> co, submit_outcome |-> so,
      last_check |-> lc, sent_since |-> ss, selected |-> sel, ztp_flag |-> ztp ]

\* init_session_state for a session that has just connected
FreshSession ==
    SessionState(FALSE, FALSE, "None", << >>, FALSE, << >>, NoCheck, "none",
                 "none", FALSE, DefaultSelection(SessionRules), "No")

-----------------------------------------------------------------------------
(* The scoring model: a logged-in auditor changes the reason multiselects  *)
(* and the ZTP selectbox; every change reruns the script.                  *)

InitScore ==
    /\ scoring_rules \in RuleTables
    /\ selected = DefaultSelection(scoring_rules)
    /\ ztp_flag = "No"
    /\ LET out == RunScoring(scoring_rules, selected)
       IN  /\ total_score = out.total_score
           /\ fatal_error = out.fatal_error
           /\ results = out.results
           /\ final_score_display = FinalScoreDisplay(ztp_flag, out.fatal_error, out.total_score)
           /\ overall_score = OverallScore(ztp_flag, out.fatal_error, out.total_score)
    /\ logged_in = TRUE
    /\ email_sent = FALSE
    /\ entity_check = "None"
    /\ associate_email = << >>
    /\ form_submitted = FALSE
    /\ entity_id = << >>
    /\ check_outcome = NoCheck
    /\ submit_outcome = "none"
    /\ read_fault_seen = FALSE
    /\ last_check = "none"
    /\ sent_since = FALSE
    /\ running = "A"
    /\ peer = FreshSession
    /\ race = 0
    /\ bucket = << >>
    /\ dash_pc = "start"
    /\ load_log = NoLoad
    /\ df_raw = << >>
    /\ df = << >>
    /\ date_range = << >>
    /\ filters = << >>
    /\ df_filtered = << >>
    /\ summary = << >>
    /\ param_records = << >>
    /\ pareto_df = << >>
    /\ grouped = << >>

\* the auditor sets the multiselect of parameter p to sel (line 325); the run
\* this starts has no button clicked and shows no check or submit message
SelectReasons(p, sel) ==
    /\ logged_in /\ ~form_submitted
    /\ sel # selected[p]
    /\ selected' = [ selected EXCEPT ![p] = sel ]
    /\ Rerun(scoring_rules, selected', ztp_flag)
    /\ check_outcome' = NoCheck
    /\ submit_outcome' = "none"
    /\ UNCHANGED << scoring_rules, ztp_flag, logged_in, email_sent, entity_check,
                    associate_email, form_submitted, entity_id, read_fault_seen,
                    last_check, sent_since, server_vars, bucket >>
    /\ UNCHANGED dash_vars

\* the auditor sets "Any ZTP Violation?" (line 293)
SelectZtp(z) ==
    /\ logged_in /\ ~form_submitted
    /\ z # ztp_flag
    /\ ztp_flag' = z
    /\ Rerun(scoring_rules, selected, ztp_flag')
    /\ check_outcome' = NoCheck
    /\ submit_outcome' = "none"
    /\ UNCHANGED << scoring_rules, selected, logged_in, email_sent, entity_check,
                    associate_email, form_submitted, entity_id, read_fault_seen,
                    last_check, sent_since, server_vars, bucket >>
    /\ UNCHANGED dash_vars

NextScore ==
    \/ \E p \in ParamsOf(scoring_rules) :
         \E sel \in SubSeqs(Options(SubDictOf(scoring_rules, p))) :
            SelectReasons(p, sel)
    \/ \E z \in { "No", "Yes" } : SelectZtp(z)

SpecScore == InitScore /\ [][NextScore]_vars

-----------------------------------------------------------------------------
(* The session model: one auditor's session on the form, lines 166-186,    *)
(* 213-233, 277-289, 380-481 and 489-510.  Each action is one click or     *)
(* edit and the script run it triggers.  st.session_state and the widget   *)
(* values belong to one browser session; the server keeps one such state   *)
(* per session and all sessions write to the same bucket.                  *)

\* the associates the session looks up (values of the "Work Email" column)
Associates == { << "x" >>, << "X", " " >> }
\* what the auditor types into the ticket id field
EntityIds == { << "a" >>, << "b" >> }

\* the state of the session whose script runs next
Me ==
    SessionState(logged_in, email_sent, entity_check, associate_email,
                 form_submitted, entity_id, check_outcome, submit_outcome,
                 last_check, sent_since, selected, ztp_flag)

\* the state of session "A" or "B"
SessionOf(id) == IF running = id THEN Me ELSE peer

\* some readable record of the bucket has the key (ticket, email), compared
\* as lines 267-270 compare
KeyInBucket(bkt, ticket, email) ==
    \E n \in DOMAIN bkt :
        /\ EndsWithJson(n)
        /\ bkt[n].kind = "object"
        /\ KeyMatches(bkt[n], ticket, email)

\* init_session_state and the first run of the script
Init ==
    /\ scoring_rules = SessionRules
    /\ selected = DefaultSelection(scoring_rules)
    /\ ztp_flag = "No"
    /\ LET out == RunScoring(scoring_rules, selected)
       IN  /\ total_score = out.total_score
           /\ fatal_error = out.fatal_error
           /\ results = out.results
           /\ final_score_display = FinalScoreDisplay(ztp_flag, out.fatal_error, out.total_score)
           /\ overall_score = OverallScore(ztp_flag, out.fatal_error, out.total_score)
    /\ logged_in = FALSE
    /\ email_sent = FALSE
    /\ entity_check = "None"
    /\ associate_email = << >>
    /\ form_submitted = FALSE
    /\ entity_id = << >>
    /\ check_outcome = NoCheck
    /\ submit_outcome = "none"
    /\ read_fault_seen = FALSE
    /\ last_check = "none"
    /\ sent_since = FALSE
    /\ running = "A"
    /\ peer = FreshSession
    /\ race = 0
    /\ bucket = << >>
    /\ dash_pc = "start"
    /\ load_log = NoLoad
    /\ df_raw = << >>
    /\ df = << >>
    /\ date_range = << >>
    /\ filters = << >>
    /\ df_filtered = << >>
    /\ summary = << >>
    /\ param_records = << >>
    /\ pareto_df = << >>
    /\ grouped = << >>

\* login_section: the Login button, with credentials that match or do not
Login(credentials_ok) ==
    /\ ~logged_in
    /\ logged_in' = credentials_ok
    /\ check_outcome' = NoCheck
    /\ submit_outcome' = "none"
    /\ last_check' = "none"
    /\ UNCHANGED << score_vars, email_sent, entity_check, associate_email,
                    form_submitted, entity_id, read_fault_seen, sent_since,
                    server_vars, bucket >>
    /\ UNCHANGED dash_vars

\* lines 222-233: the Lookup Details button with an associate selected.  The
\* run of the click ends at st.rerun() (line 233) before the keyed widgets
\* of the form are drawn.  Whether widgets that such a run did not draw keep
\* their state depends on the Streamlit release, and the repository pins
\* none: widgets_kept tells which one runs.  Kept, the ticket id, the reasons
\* and the ZTP flag stay as they are; dropped, they show their defaults in
\* the run that follows.
LookupDetails(email, widgets_kept) ==
    /\ logged_in /\ ~form_submitted
    /\ associate_email' = email
    /\ entity_id' = IF widgets_kept THEN entity_id ELSE << >>
    /\ selected' = IF widgets_kept THEN selected ELSE DefaultSelection(scoring_rules)
    /\ ztp_flag' = IF widgets_kept THEN ztp_flag ELSE "No"
    /\ Rerun(scoring_rules, selected', ztp_flag')
    /\ check_outcome' = NoCheck
    /\ submit_outcome' = "none"
    /\ race' = 0
    /\ UNCHANGED << scoring_rules, logged_in, email_sent, entity_check,
                    form_submitted, read_fault_seen, last_check,
                    sent_since, running, peer, bucket >>
    /\ UNCHANGED dash_vars

\* line 277: the auditor edits the ticket id field
EditEntityId(id) ==
    /\ logged_in /\ ~form_submitted
    /\ id # entity_id
    /\ entity_id' = id
    /\ check_outcome' = NoCheck
    /\ submit_outcome' = "none"
    /\ race' = 0
    /\ UNCHANGED << score_vars, logged_in, email_sent, entity_check,
                    associate_email, form_submitted, read_fault_seen,
                    last_check, sent_since, running, peer, bucket >>
    /\ UNCHANGED dash_vars

\* the downloads that fail during one check: none, or that of one blob
ReadFaults(bkt) == { { } } \cup { { n } : n \in DOMAIN bkt }

\* the place of a check click in the sequence check(A), check(B): session A
\* asks about a key the bucket does not hold, then session B asks about the
\* same key, every blob being listed and read both times
RaceAfterCheck(unreadable) ==
    IF unreadable # { } THEN 0
    ELSE IF running = "A" /\ ~KeyInBucket(bucket, entity_id, associate_email)
    THEN 1
    ELSE IF /\ race = 1
            /\ running = "B"
            /\ SameText(entity_id, peer.entity_id)
            /\ SameText(associate_email, peer.associate_email)
    THEN 2
    ELSE 0

\* lines 279-289: the check button.  list_ok tells whether list_blobs()
\* succeeds, unreadable names the blobs whose download raises.
CheckEntity(list_ok, unreadable) ==
    /\ logged_in /\ ~form_submitted
    /\ IF Strip(entity_id) = << >>
       THEN /\ check_outcome' = CheckOutcome("warn_id", FALSE, FALSE)
            /\ race' = 0
            /\ UNCHANGED << entity_check, read_fault_seen, last_check >>
       ELSE IF associate_email = << >>
       THEN /\ check_outcome' = CheckOutcome("warn_email", FALSE, FALSE)
            /\ race' = 0
            /\ UNCHANGED << entity_check, read_fault_seen, last_check >>
       ELSE IF ~list_ok
       THEN /\ check_outcome' = CheckOutcome("exception", TRUE, FALSE)
            /\ race' = 0
            /\ UNCHANGED << entity_check, read_fault_seen, last_check >>
       ELSE \E scan \in { ScanBlobs(entity_id, associate_email,
                                    Listing(bucket, unreadable), 1, FALSE) } :
            /\ read_fault_seen' = (read_fault_seen \/ scan.read_failed)
            /\ race' = RaceAfterCheck(unreadable)
            /\ IF is_duplicate_entity(entity_id, associate_email,
                                      Listing(bucket, unreadable))
               THEN /\ entity_check' = "False"
                    /\ check_outcome' = CheckOutcome("duplicate", FALSE, scan.read_failed)
                    /\ last_check' = "duplicate"
               ELSE /\ entity_check' = "True"
                    /\ check_outcome' = CheckOutcome("unique", FALSE, scan.read_failed)
                    /\ last_check' = "unique"
    /\ submit_outcome' = "none"
    /\ UNCHANGED << score_vars, logged_in, email_sent, associate_email,
                    form_submitted, entity_id, sent_since, running, peer, bucket >>
    /\ UNCHANGED dash_vars

\* lines 383-431: the Send Email button
SendEmail ==
    /\ logged_in /\ ~form_submitted
    /\ IF associate_email = << >>
       THEN UNCHANGED << email_sent, sent_since >>
       ELSE email_sent' = TRUE /\ sent_since' = TRUE
    /\ check_outcome' = NoCheck
    /\ submit_outcome' = "none"
    /\ UNCHANGED << score_vars, logged_in, entity_check, associate_email,
                    form_submitted, entity_id, read_fault_seen, last_check,
                    server_vars, bucket >>
    /\ UNCHANGED dash_vars

\* lines 442-468: audit_entry, by the fields the model reads
AuditEntryRawSum ==
    Content("object", TRUE, entity_id, TRUE, associate_email,
            ztp_flag, total_score, results)
AuditEntry ==
    Content("object", TRUE, entity_id, TRUE, associate_email,
            ztp_flag, final_score_display, results)

\* the audit blobs uploaded so far
AuditNames(bkt) == { n \in DOMAIN bkt : n.prefix = "audit_" }

\* line 471: the names the upload may get: "audit_", the second of the
\* upload and the first digits of a uuid.  The first upload is made in second
\* 1, a later one in the second of the latest upload so far or in the next;
\* the digits are any of two values.  The number of the name is
\* 2 * second + digits, so that the names list in the order of their text.
NewBlobName(bkt) ==
    LET last == IF AuditNames(bkt) = { } THEN 1
                ELSE (CHOOSE n \in AuditNames(bkt) :
                         \A m \in AuditNames(bkt) : m.id <= n.id).id \div 2
        seconds == IF AuditNames(bkt) = { } THEN { 1 } ELSE { last, last + 1 }
    IN  { BlobName("audit_", 2 * second + digits, ".json") :
            second \in seconds, digits \in { 0, 1 } }

\* upload_to_gcs, lines 110-115
upload_to_gcs(bkt, destination_blob_name, content) ==
    [ n \in DOMAIN bkt \cup { destination_blob_name } |->
        IF n = destination_blob_name THEN content ELSE bkt[n] ]

\* lines 435-440: the message of the branch that keeps Submit Audit from
\* uploading, "none" when no branch does
SubmitRefusalChecksAgain ==
    IF ~email_sent THEN "no_email"
    ELSE IF entity_check = "False" THEN "duplicate"
    ELSE IF entity_check = "None" THEN "unchecked"
    ELSE IF KeyInBucket(bucket, entity_id, associate_email) THEN "duplicate"
    ELSE "none"
SubmitRefusal ==
    IF ~email_sent THEN "no_email"
    ELSE IF entity_check = "False" THEN "duplicate"
    ELSE IF entity_check = "None" THEN "unchecked"
    ELSE "none"

\* the place of a Submit Audit click in the sequence submit(A), submit(B)
\* after check(A), check(B): each session has sent its email and its upload
\* goes through, the second under a name of its own
RaceAfterSubmit(upload_ok, blob_name) ==
    IF race = 2 /\ running = "A" /\ email_sent /\ upload_ok THEN 3
    ELSE IF race = 3 /\ running = "B" /\ email_sent /\ upload_ok
            /\ blob_name \notin DOMAIN bucket
    THEN 4
    ELSE 0

\* lines 434-481: the Submit Audit button, blob_name being the name line 471
\* generates.  The click is not one step of the code: the upload of line 474
\* is a call to the store, and the flags are set after the st.success of
\* line 475.  interrupted tells that a further interaction of the session
\* (a second click) arrives while the run of the click is under way:
\* Streamlit then raises its rerun exception in the next st call, which the
\* "except Exception" of line 480 does not catch, so the run ends with the
\* record uploaded, no message shown, and lines 476-479 not executed.
\* Without it, after the rerun of line 479 the form is not drawn, so its
\* widgets lose their state and show their defaults when the form is drawn
\* again.
SubmitAudit(upload_ok, blob_name, interrupted) ==
    /\ logged_in /\ ~form_submitted
    /\ check_outcome' = NoCheck
    /\ race' = RaceAfterSubmit(upload_ok, blob_name)
    /\ IF SubmitRefusal # "none"
       THEN /\ submit_outcome' = IF interrupted THEN "none" ELSE SubmitRefusal
            /\ UNCHANGED << score_vars, email_sent, entity_check, form_submitted,
                            entity_id, last_check, sent_since, bucket >>
       ELSE IF ~upload_ok
       THEN /\ submit_outcome' = IF interrupted THEN "none" ELSE "upload_failed"
            /\ UNCHANGED << score_vars, email_sent, entity_check, form_submitted,
                            entity_id, last_check, sent_since, bucket >>
       ELSE IF interrupted
       THEN /\ Cardinality(AuditNames(bucket)) < MaxAudits
            /\ bucket' = upload_to_gcs(bucket, blob_name, AuditEntry)
            /\ submit_outcome' = "none"
            /\ last_check' = "none"
            /\ sent_since' = FALSE
            /\ UNCHANGED << score_vars, email_sent, entity_check, form_submitted,
                            entity_id >>
       ELSE /\ Cardinality(AuditNames(bucket)) < MaxAudits
            /\ bucket' = upload_to_gcs(bucket, blob_name, AuditEntry)
            /\ submit_outcome' = "uploaded"
            /\ form_submitted' = TRUE
            /\ email_sent' = FALSE
            /\ entity_check' = "None"
            /\ last_check' = "none"
            /\ sent_since' = FALSE
            /\ entity_id' = << >>
            /\ selected' = DefaultSelection(scoring_rules)
            /\ ztp_flag' = "No"
            /\ Rerun(scoring_rules, selected', ztp_flag')
            /\ UNCHANGED scoring_rules
    /\ UNCHANGED << logged_in, associate_email, read_fault_seen, running, peer >>
    /\ UNCHANGED dash_vars

\* lines 497-510: the Submit Another Audit button
SubmitAnother ==
    /\ logged_in /\ form_submitted
    /\ form_submitted' = FALSE
    /\ associate_email' = << >>
    /\ email_sent' = FALSE
    /\ entity_check' = "None"
    /\ last_check' = "none"
    /\ check_outcome' = NoCheck
    /\ submit_outcome' = "none"
    /\ race' = 0
    /\ UNCHANGED << score_vars, logged_in, entity_id, read_fault_seen,
                    sent_since, running, peer, bucket >>
    /\ UNCHANGED dash_vars

Next ==
    \/ \E ok \in BOOLEAN : Login(ok)
    \/ \E email \in Associates, widgets_kept \in BOOLEAN :
          LookupDetails(email, widgets_kept)
    \/ \E id \in EntityIds \cup { << >> } : EditEntityId(id)
    \/ \E list_ok \in BOOLEAN, unreadable \in ReadFaults(bucket) :
          CheckEntity(list_ok, unreadable)
    \/ SendEmail
    \/ \E upload_ok \in BOOLEAN, blob_name \in NewBlobName(bucket),
          interrupted \in BOOLEAN :
          SubmitAudit(upload_ok, blob_name, interrupted)
    \/ SubmitAnother

Spec == Init /\ [][Next]_vars

-----------------------------------------------------------------------------
(* The server model: two auditors' sessions on the same bucket.  The       *)
(* server runs one script at a time; the runs of the two sessions          *)
(* interleave in any order.                                                *)

OtherSession(id) == IF id = "A" THEN "B" ELSE "A"

\* the next script run belongs to the other session: its session state and
\* widget values are the ones the script reads
Switch ==
    /\ running' = OtherSession(running)
    /\ peer' = Me
    /\ logged_in' = peer.logged_in
    /\ email_sent' = peer.email_sent
    /\ entity_check' = peer.entity_check
    /\ associate_email' = peer.associate_email
    /\ form_submitted' = peer.form_submitted
    /\ entity_id' = peer.entity_id
    /\ check_outcome' = peer.check_outcome
    /\ submit_outcome' = peer.submit_outcome
    /\ last_check' = peer.last_check
    /\ sent_since' = peer.sent_since
    /\ selected' = peer.selected
    /\ ztp_flag' = peer.ztp_flag
    /\ Rerun(scoring_rules, selected', ztp_flag')
    /\ UNCHANGED << scoring_rules, read_fault_seen, race, bucket >>
    /\ UNCHANGED dash_vars

\* what the two auditors type and look up
RaceAssociates == { << "x" >> }
RaceEntityIds == { << "a" >> }

NextRace ==
    \/ \E ok \in BOOLEAN : Login(ok)
    \/ \E email \in RaceAssociates, widgets_kept \in BOOLEAN :
          LookupDetails(email, widgets_kept)
    \/ \E id \in RaceEntityIds : EditEntityId(id)
    \/ \E list_ok \in BOOLEAN : CheckEntity(list_ok, { })
    \/ SendEmail
    \/ \E upload_ok \in BOOLEAN, blob_name \in NewBlobName(bucket),
          interrupted \in BOOLEAN :
          SubmitAudit(upload_ok, blob_name, interrupted)
    \/ SubmitAnother
    \/ Switch

SpecRace == Init /\ [][NextRace]_vars

-----------------------------------------------------------------------------------------------------------------------------------------------------
(* The form model: one auditor's session from the login to the upload of    *)
(* one audit, in which the reason multiselects and the ZTP selectbox are   *)
(* changed between the clicks, so that the record is written from a form   *)
(* that is not at its defaults.                                            *)

\* the selections the auditor gives a multiselect: nothing, the default, a
\* reason that deducts, a reason the first parameter's table flags fatal
FormSelections ==
    { << >>, << Compliant >>, << ReasonA >>, << ReasonB >> }

NextForm ==
    /\ AuditNames(bucket) = { }
    /\ \/ \E ok \in BOOLEAN : Login(ok)
       \/ \E email \in RaceAssociates, widgets_kept \in BOOLEAN :
             LookupDetails(email, widgets_kept)
       \/ \E id \in RaceEntityIds : EditEntityId(id)
       \/ \E list_ok \in BOOLEAN : CheckEntity(list_ok, { })
       \/ SendEmail
       \/ \E upload_ok \in BOOLEAN, blob_name \in NewBlobName(bucket),
             interrupted \in BOOLEAN :
             SubmitAudit(upload_ok, blob_name, interrupted)
       \/ \E p \in ParamsOf(scoring_rules), sel \in FormSelections : SelectReasons(p, sel)
       \/ \E z \in { "No", "Yes" } : SelectZtp(z)

SpecForm == Init /\ [][NextForm]_vars

-----------------------------------------------------------------------------
(* The duplicate checker model: the check button pressed on a bucket, a    *)
(* ticket id and an associate drawn from bounded sets.                     *)

WorkEmails == Associates \cup { << "y" >> }

\* the ticket ids the checker is asked about
TicketTexts == Texts(MaxStrLen)

Obj(ticket, email) == Content("object", TRUE, ticket, TRUE, email, "No", 0, << >>)

\* blobs a bucket may hold: records whose key differs from the arguments in
\* case and blanks only, in one field only, a record without an email field,
\* text that is no JSON, JSON that is no object, and a record under a name
\* that does not end in ".json"
CandidateBlobs ==
    << [ name |-> BlobName("archive_", 1, ".json"),
         content |-> Content("invalid", FALSE, << >>, FALSE, << >>, "No", 0, << >>) ],
       [ name |-> BlobName("archive_", 2, ".json"),
         content |-> Content("array", FALSE, << >>, FALSE, << >>, "No", 0, << >>) ],
       [ name |-> BlobName("archive_", 3, ".json"),
         content |-> Content("object", TRUE, << "a" >>, FALSE, << >>, "No", 0, << >>) ],
       [ name |-> BlobName("archive_", 4, ".json"), content |-> Obj(<< "b" >>, << " ", "Y" >>) ],
       [ name |-> BlobName("archive_", 5, ".json"), content |-> Obj(<< "A", " " >>, << "x" >>) ],
       [ name |-> BlobName("export_", 1, ".txt"), content |-> Obj(<< "a" >>, << "y" >>) ] >>

BucketOf(I) ==
    [ n \in { CandidateBlobs[i].name : i \in I } |->
        CandidateBlobs[CHOOSE i \in I : CandidateBlobs[i].name = n].content ]

DupBuckets ==
    { BucketOf(I) : I \in { J \in SUBSET (1..Len(CandidateBlobs)) : Cardinality(J) <= MaxBlobs } }

InitDup ==
    /\ scoring_rules = SessionRules
    /\ selected = DefaultSelection(scoring_rules)
    /\ ztp_flag = "No"
    /\ LET out == RunScoring(scoring_rules, selected)
       IN  /\ total_score = out.total_score
           /\ fatal_error = out.fatal_error
           /\ results = out.results
           /\ final_score_display = FinalScoreDisplay(ztp_flag, out.fatal_error, out.total_score)
           /\ overall_score = OverallScore(ztp_flag, out.fatal_error, out.total_score)
    /\ logged_in = TRUE
    /\ email_sent = FALSE
    /\ entity_check = "None"
    /\ associate_email \in WorkEmails
    /\ form_submitted = FALSE
    /\ entity_id \in TicketTexts
    /\ check_outcome = NoCheck
    /\ submit_outcome = "none"
    /\ read_fault_seen = FALSE
    /\ last_check = "none"
    /\ sent_since = FALSE
    /\ running = "A"
    /\ peer = FreshSession
    /\ race = 0
    /\ bucket \in DupBuckets
    /\ dash_pc = "start"
    /\ load_log = NoLoad
    /\ df_raw = << >>
    /\ df = << >>
    /\ date_range = << >>
    /\ filters = << >>
    /\ df_filtered = << >>
    /\ summary = << >>
    /\ param_records = << >>
    /\ pareto_df = << >>
    /\ grouped = << >>

NextDup ==
    \E list_ok \in BOOLEAN, unreadable \in ReadFaults(bucket) :
        CheckEntity(list_ok, unreadable)

SpecDup == InitDup /\ [][NextDup]_vars

-----------------------------------------------------------------------------
(* The dashboard, src/Quality_Audit.py: one run of the script over the     *)
(* bucket.  A stored record is the JSON object of a blob: a function from  *)
(* the keys present in it to their values.  A data frame is the sequence   *)
(* of its rows; a row is named by the blob it was loaded from.             *)

\* the value of "Audit Date": the text "2024-<m>-<d>", or null
DateText(m, d) == [ kind |-> "text", m |-> m, d |-> d ]
NoValue == [ kind |-> "none", m |-> 0, d |-> 0 ]

\* the value of "Total Score": a JSON number, a string of digits, another
\* string such as "N/A", or null
Num(n) == [ kind |-> "num", val |-> n ]
NumText(n) == [ kind |-> "numtext", val |-> n ]
OtherText == [ kind |-> "text", val |-> 0 ]
NoScore == [ kind |-> "none", val |-> 0 ]

\* the value of "Parameters": a list, a string that json.loads may or may not
\* turn into a list, or null; an item of the list is a JSON object (a function
\* from its keys to their values) or something else
ParamList(items) == [ kind |-> "list", items |-> items, parses |-> TRUE ]
ParamText(parses, items) == [ kind |-> "text", items |-> items, parses |-> parses ]
ParamNull == [ kind |-> "null", items |-> << >>, parses |-> FALSE ]
Item(fields) == [ is_dict |-> TRUE, fields |-> fields ]
NoDict == [ is_dict |-> FALSE, fields |-> << >> ]

\* the value of a reasons key: a string, by its pieces (reason names, ", ",
\* "," and " "), or a list of reason names
ReasonText(pieces) == [ is_str |-> TRUE, text |-> pieces ]
ReasonList(names) == [ is_str |-> FALSE, text |-> names ]

\* the calendar of 2024
DaysInMonth(m) ==
    CASE m \in { 1, 3, 5, 7, 8, 10, 12 } -> 31
      [] m = 2 -> 29
      [] OTHER -> 30

RECURSIVE DaysBefore(_)
DaysBefore(m) == IF m <= 1 THEN 0 ELSE DaysBefore(m - 1) + DaysInMonth(m - 1)

\* NaT and NaN
NaT == [ nat |-> TRUE, day |-> 0 ]
NaN == [ nan |-> TRUE, val |-> 0 ]

\* pd.to_datetime(..., errors="coerce") on one value: the day counted from
\* 2024-01-01 (a Monday), or NaT
to_datetime(v) ==
    IF v.kind = "text" /\ v.m \in 1..12 /\ v.d \in 1..DaysInMonth(v.m)
    THEN [ nat |-> FALSE, day |-> DaysBefore(v.m) + v.d - 1 ]
    ELSE NaT

\* pd.to_numeric(..., errors="coerce") on one value
to_numeric(v) ==
    IF v.kind \in { "num", "numtext" }
    THEN [ nan |-> FALSE, val |-> v.val ]
    ELSE NaN

\* .dt.date, .dt.to_period("W") (weeks from Monday to Sunday) and
\* .dt.to_period("M") of a timestamp
DayOf(ts) == ts.day
WeekOf(ts) == ts.day \div 7
MonthOf(ts) ==
    CHOOSE m \in 1..12 : DaysBefore(m) <= ts.day /\ ts.day < DaysBefore(m) + DaysInMonth(m)

\* lines 316-319: the grouping column "Day", "Week" or "Month" of a timestamp
PeriodOf(column, ts) ==
    CASE column = "Day"   -> DayOf(ts)
      [] column = "Week"  -> WeekOf(ts)
      [] column = "Month" -> MonthOf(ts)

\* record.setdefault(key, default)
SetDefault(record, key, default) ==
    IF key \in DOMAIN record THEN record ELSE record @@ (key :> default)

\* lines 38-45: the eight setdefault calls
WithDefaults(record) ==
    LET r1 == SetDefault(record, "Parameters", ParamList(<< >>))
        r2 == SetDefault(r1, "Total Score", NoScore)
        r3 == SetDefault(r2, "Audit Date", NoValue)
        r4 == SetDefault(r3, "Associate Name", "Unknown")
        r5 == SetDefault(r4, "Team Lead", "Unknown")
        r6 == SetDefault(r5, "Audit Type", "Unknown")
        r7 == SetDefault(r6, "Auditor Name", "Unknown")
    IN  SetDefault(r7, "ZTP Violation", "No")

\* line 31: blob.name.startswith('.') or blob.name.endswith('/')
SkipName(name) == name.prefix = ".keep_" \/ name.ext = "/"

\* lines 30-50: the loop over the listed blobs from position i on; rows are
\* the records appended, warned the blobs a warning was shown for
RECURSIVE LoadLoopStopAtError(_, _, _)
LoadLoopStopAtError(blobs, i, acc) ==
    IF i > Len(blobs) THEN acc
    ELSE IF SkipName(blobs[i].name) \/ ~EndsWithJson(blobs[i].name)
         THEN LoadLoopStopAtError(blobs, i + 1, acc)
    ELSE IF ~blobs[i].readable \/ blobs[i].content.kind # "object"
         THEN [ acc EXCEPT !.warned = Append(@, blobs[i].name) ]
    ELSE LoadLoopStopAtError(blobs, i + 1,
             [ acc EXCEPT !.rows = Append(@, [ blob |-> blobs[i].name,
                                                rec  |-> WithDefaults(blobs[i].content.fields) ]) ])
RECURSIVE LoadLoop(_, _, _)
LoadLoop(blobs, i, acc) ==
    IF i > Len(blobs) THEN acc
    ELSE IF SkipName(blobs[i].name) \/ ~EndsWithJson(blobs[i].name)
         THEN LoadLoop(blobs, i + 1, acc)
    ELSE IF ~blobs[i].readable
         THEN LoadLoop(blobs, i + 1, [ acc EXCEPT !.warned = Append(@, blobs[i].name) ])
    ELSE IF blobs[i].content.kind = "invalid"
         THEN LoadLoop(blobs, i + 1, [ acc EXCEPT !.warned = Append(@, blobs[i].name) ])
    ELSE IF blobs[i].content.kind # "object"
         THEN LoadLoop(blobs, i + 1, [ acc EXCEPT !.warned = Append(@, blobs[i].name) ])
    ELSE LoadLoop(blobs, i + 1,
             [ acc EXCEPT !.rows = Append(@, [ blob |-> blobs[i].name,
                                                rec  |-> WithDefaults(blobs[i].content.fields) ]) ])

\* load_data_from_gcs, given whether list_blobs() succeeds and what it lists
load_data_from_gcs(list_ok, blobs) ==
    IF ~list_ok THEN [ rows |-> << >>, warned |-> << >> ]
    ELSE LoadLoop(blobs, 1, [ rows |-> << >>, warned |-> << >> ])

\* lines 85-92: to_numeric, to_datetime and dropna(subset=["Audit Date"])
CleanRow(row) ==
    [ blob |-> row.blob,
      rec  |-> [ row.rec EXCEPT !["Total Score"] = to_numeric(@),
                                !["Audit Date"] = to_datetime(@) ] ]

Cleanup(frame) ==
    LET converted == [ i \in 1..Len(frame) |-> CleanRow(frame[i]) ]
        HasDate(row) == ~row.rec["Audit Date"].nat
    IN  SelectSeq(converted, HasDate)

\* lines 100-101: the smallest and the largest audit day of the frame
MinDay(frame) ==
    CHOOSE n \in { frame[i].rec["Audit Date"].day : i \in 1..Len(frame) } :
        \A i \in 1..Len(frame) : n <= frame[i].rec["Audit Date"].day
MaxDay(frame) ==
    CHOOSE n \in { frame[i].rec["Audit Date"].day : i \in 1..Len(frame) } :
        \A i \in 1..Len(frame) : n >= frame[i].rec["Audit Date"].day

\* lines 112-119: the date filter; a date_input that holds one date only
\* does not filter
DateFilter(frame, range) ==
    IF Len(range) = 2
    THEN LET InRange(row) == /\ row.rec["Audit Date"].day >= range[1]
                             /\ row.rec["Audit Date"].day <= range[2]
         IN  SelectSeq(frame, InRange)
    ELSE frame

\* the columns of the four selectboxes
FilterColumns == << "Associate Name", "Team Lead", "Audit Type", "Auditor Name" >>

\* lines 127-138: the options of the selectbox of one column
FilterOptions(frame, column) ==
    { "All" } \cup { frame[i].rec[column] : i \in 1..Len(frame) }

\* lines 142-151: the four filters, from column i on
RECURSIVE ApplyFilters(_, _, _)
ApplyFilters(frame, chosen, i) ==
    IF i > Len(FilterColumns) THEN frame
    ELSE LET column == FilterColumns[i]
             Matches(row) == row.rec[column] = chosen[column]
         IN  IF chosen[column] # "All"
             THEN ApplyFilters(SelectSeq(frame, Matches), chosen, i + 1)
             ELSE ApplyFilters(frame, chosen, i + 1)

\* the numeric values of a column of scores, in row order
RECURSIVE NumericValues(_)
NumericValues(values) ==
    IF values = << >> THEN << >>
    ELSE IF Head(values).nan THEN NumericValues(Tail(values))
         ELSE << Head(values).val >> \o NumericValues(Tail(values))

RECURSIVE SumOf(_)
SumOf(values) == IF values = << >> THEN 0 ELSE Head(values) + SumOf(Tail(values))

\* Series.mean() is the double nearest to sum / count (the sum of the scores
\* is exact).  FloatOf tells how that double lies to the quotient, for
\* sum > 0: exp is the exponent of its first binary place, above tells that
\* it is greater than the quotient, and off / unit is its distance to the
\* quotient in units of its last binary place.  The 52 binary places after
\* the first are made by long division, four at a time, and rounded to the
\* nearest, at a tie to the even one.
FloatOf(sum, count) ==
    LET RECURSIVE Exponent(_, _)
        Exponent(a, b) == IF a < b THEN Exponent(2 * a, b) - 1
                          ELSE IF a < 2 * b THEN 0
                          ELSE Exponent(a, 2 * b) + 1
        exp == Exponent(sum, count)
        top == IF exp < 0 THEN sum * 2 ^ (0 - exp) ELSE sum
        unit == IF exp > 0 THEN count * 2 ^ exp ELSE count
        RECURSIVE Places(_, _, _)
        Places(rem, left, last) ==
            IF left = 0
            THEN LET up == 2 * rem > unit \/ (2 * rem = unit /\ last = 1)
                 IN  [ above |-> up, off |-> IF up THEN unit - rem ELSE rem ]
            ELSE Places((16 * rem) % unit, left - 1, ((16 * rem) \div unit) % 2)
        places == Places(top - unit, 13, 1)
    IN  [ above |-> places.above, off |-> places.off, unit |-> unit, exp |-> exp ]

\* line 169, f"{avg_score:.2f}": the double of num / den written with two
\* decimals, in hundredths.  The digits are those of the double's exact
\* value, rounded to the nearest hundredth: a quotient that is not half way
\* between two hundredths rounds as itself (with fewer than 2^40 scores the
\* double is on its side of the half); a half-way quotient that is a binary
\* fraction (8 * num a multiple of den) is the double and goes to the even
\* hundredth; any other half-way quotient (40 scores or more) goes where the
\* double lies to it.
Hundredths(num, den) ==
    LET q == (100 * num) \div den
        r == (100 * num) % den
    IN  IF 2 * r < den THEN q
        ELSE IF 2 * r > den THEN q + 1
        ELSE IF (8 * num) % den = 0 THEN (IF q % 2 = 0 THEN q ELSE q + 1)
        ELSE IF FloatOf(num, den).above THEN q + 1 ELSE q

\* lines 351, 361, 370, Series.round(2): numpy multiplies the double by 100,
\* rounds the product (a double again) to the nearest integer, at a tie to
\* the even one, and divides by 100; in hundredths.  For a half-way quotient
\* that is not a binary fraction, the product of its double is the half
\* itself when the double is off by less than half a unit of the product's
\* last place, and then goes to the even hundredth; otherwise the product is
\* the double next to the half, on the side of the quotient's double.
Round2(num, den) ==
    LET q == (100 * num) \div den
        r == (100 * num) % den
        even == IF q % 2 = 0 THEN q ELSE q + 1
    IN  IF 2 * r < den THEN q
        ELSE IF 2 * r > den THEN q + 1
        ELSE IF (8 * num) % den = 0 THEN even
        ELSE LET f == FloatOf(num, den)
                 gap == FloatOf(2 * q + 1, 2).exp - f.exp
             IN  IF 200 * f.off <= (2 ^ gap) * f.unit THEN even
                 ELSE IF f.above THEN q + 1 ELSE q

\* lines 163 and 169, Series.mean() shown with two decimals: the mean of the
\* numeric values in hundredths, NaN when there is none
MeanCountsAll(values) ==
    IF values = << >> THEN NaN
    ELSE [ nan |-> FALSE,
           val |-> Hundredths(SumOf(NumericValues(values)), Len(values)) ]
Mean(values) ==
    LET nums == NumericValues(values)
    IN  IF nums = << >> THEN NaN
        ELSE [ nan |-> FALSE, val |-> Hundredths(SumOf(nums), Len(nums)) ]

TotalScores(frame) == [ i \in 1..Len(frame) |-> frame[i].rec["Total Score"] ]

\* lines 163-167: avg_score, total_audits and ztp_count
ScoreSummary(frame) ==
    [ avg_score    |-> Mean(TotalScores(frame)),
      total_audits |-> Len(frame),
      ztp_count    |-> Cardinality({ i \in 1..Len(frame) :
                                        frame[i].rec["ZTP Violation"] = "Yes" }) ]

\* A reasons text is a sequence of pieces: single characters, and for short
\* ", " and the words of the rule table written as one piece.  A reason of
\* the rule table holds no comma and no space at its ends, and stays one
\* piece; "Compliant" is read letter by letter.
Spell(piece) ==
    CASE piece = ", "        -> << ",", " " >>
      [] piece = "Compliant" -> << "C", "o", "m", "p", "l", "i", "a", "n", "t" >>
      [] piece = "compliant" -> << "c", "o", "m", "p", "l", "i", "a", "n", "t" >>
      [] OTHER               -> << piece >>

\* a string as its characters
RECURSIVE Expand(_)
Expand(pieces) ==
    IF pieces = << >> THEN << >>
    ELSE Spell(Head(pieces)) \o Expand(Tail(pieces))

\* str.split(", ") when wide, str.split(",") otherwise, on the pieces of t
\* from position i on, cur being the part read so far
RECURSIVE SplitAt(_, _, _, _)
SplitAt(t, i, cur, wide) ==
    IF i > Len(t) THEN << cur >>
    ELSE IF wide /\ t[i] = "," /\ i < Len(t) /\ t[i + 1] = " "
         THEN << cur >> \o SplitAt(t, i + 2, << >>, wide)
    ELSE IF ~wide /\ t[i] = ","
         THEN << cur >> \o SplitAt(t, i + 1, << >>, wide)
    ELSE SplitAt(t, i + 1, Append(cur, t[i]), wide)

\* str.lower() on a piece: a character, or a reason of the rule table
LowerWord(w) ==
    CASE w = ReasonA -> "script & guidelines adherence"
      [] w = ReasonB -> "incorrect information shared"
      [] OTHER       -> LowerChar(w)

\* the keys line 227 asks of a parameter result
RequiredKeys == { "Parameter", "Score", "Selected Reasons Scored" }
\* line 227: isinstance(p, dict) and all(k in p for k in (...))
HasRequiredKeys(p) ==
    p.is_dict /\ RequiredKeys \subseteq DOMAIN p.fields

\* lines 218-225: parameters_data, as the list the loop of line 225 runs over
ParametersData(v) ==
    CASE v.kind = "list" -> v.items
      [] v.kind = "text" -> IF v.parses THEN v.items ELSE << >>
      [] OTHER           -> << >>

\* lines 228-234: the row appended to param_records
ParamRecord(row, p) ==
    [ Agent      |-> row.rec["Associate Name"],
      Audit_Date |-> row.rec["Audit Date"],
      Parameter  |-> p.fields["Parameter"],
      Score      |-> p.fields["Score"],
      Reason     |-> p.fields["Selected Reasons Scored"] ]

\* line 238: is_compliant_scored
IsCompliantScored(reasons_scored) ==
    IF reasons_scored.is_str
    THEN In(Spell("Compliant"), SplitAt(Expand(reasons_scored.text), 1, << >>, TRUE))
    ELSE In("Compliant", reasons_scored.text)

\* line 242: the stripped parts that are not empty and not "compliant"
RECURSIVE NonCompliantParts(_)
NonCompliantParts(parts) ==
    IF parts = << >> THEN << >>
    ELSE LET r == Strip(Head(parts))
         IN  IF r # << >> /\ [ i \in 1..Len(r) |-> LowerWord(r[i]) ] # Spell("compliant")
             THEN << r >> \o NonCompliantParts(Tail(parts))
             ELSE NonCompliantParts(Tail(parts))

\* lines 236-243: what one parameter result adds to failure_reasons_list
FailureReasons(p) ==
    LET reasons_scored == p.fields["Selected Reasons Scored"]
    IN  IF ~IsCompliantScored(reasons_scored) /\ reasons_scored.is_str
        THEN NonCompliantParts(SplitAt(Expand(reasons_scored.text), 1, << >>, FALSE))
        ELSE << >>

\* lines 225-243: the loop over the parameter results of one row, from item i
\* on, on the running [param_records, failure_reasons_list]
RECURSIVE ItemLoop(_, _, _, _)
ItemLoop(row, items, i, acc) ==
    IF i > Len(items) THEN acc
    ELSE IF HasRequiredKeys(items[i])
         THEN ItemLoop(row, items, i + 1,
                  [ param_records        |-> Append(acc.param_records, ParamRecord(row, items[i])),
                    failure_reasons_list |-> acc.failure_reasons_list \o FailureReasons(items[i]) ])
         ELSE ItemLoop(row, items, i + 1, acc)

\* lines 215-243: the loop over the rows of df_filtered, from row i on
RECURSIVE RowLoop(_, _, _)
RowLoop(frame, i, acc) ==
    IF i > Len(frame) THEN acc
    ELSE RowLoop(frame, i + 1,
             ItemLoop(frame[i], ParametersData(frame[i].rec["Parameters"]), 1, acc))

\* line 210: "Parameters" in df_filtered.columns and notna().any()
HasParameters(frame) ==
    \E i \in 1..Len(frame) : frame[i].rec["Parameters"].kind # "null"

\* lines 210-243
ParameterAnalysis(frame) ==
    IF HasParameters(frame)
    THEN RowLoop(frame, 1, [ param_records |-> << >>, failure_reasons_list |-> << >> ])
    ELSE [ param_records |-> << >>, failure_reasons_list |-> << >> ]

\* the values of a list without repetitions, in the order they first appear
RECURSIVE Distinct(_, _)
Distinct(lst, seen) ==
    IF lst = << >> THEN << >>
    ELSE IF Head(lst) \in seen THEN Distinct(Tail(lst), seen)
         ELSE << Head(lst) >> \o Distinct(Tail(lst), seen \cup { Head(lst) })

CountOf(lst, x) == Cardinality({ i \in 1..Len(lst) : lst[i] = x })

\* a row put into rows sorted by Count descending, behind the rows of the
\* same count
RECURSIVE InsertByCount(_, _)
InsertByCount(rows, row) ==
    IF rows = << >> THEN << row >>
    ELSE IF Head(rows).Count >= row.Count
         THEN << Head(rows) >> \o InsertByCount(Tail(rows), row)
         ELSE << row >> \o rows

RECURSIVE SortByCount(_, _)
SortByCount(rows, acc) ==
    IF rows = << >> THEN acc
    ELSE SortByCount(Tail(rows), InsertByCount(acc, Head(rows)))

\* line 262: pd.Series(failure_reasons_list).value_counts(), and line 265
ReasonCounts(failure_reasons_list) ==
    LET reasons == Distinct(failure_reasons_list, { })
    IN  SortByCount([ i \in 1..Len(reasons) |->
                        [ Reason |-> reasons[i],
                          Count  |-> CountOf(failure_reasons_list, reasons[i]) ] ], << >>)

RECURSIVE CumSum(_, _)
CumSum(rows, i) == IF i = 0 THEN 0 ELSE rows[i].Count + CumSum(rows, i - 1)

\* lines 261-266: pareto_df; the cumulative percentage is the fraction
\* 100 * cumsum / sum
ParetoTable(failure_reasons_list) ==
    LET counts == ReasonCounts(failure_reasons_list)
    IN  [ i \in 1..Len(counts) |->
            [ Reason |-> counts[i].Reason,
              Count  |-> counts[i].Count,
              Cumulative_Percentage |->
                  [ num |-> 100 * CumSum(counts, i), den |-> CumSum(counts, Len(counts)) ] ] ]

\* the numbers of a set in ascending order
RECURSIVE Ascending(_)
Ascending(S) ==
    IF S = { } THEN << >>
    ELSE LET least == CHOOSE n \in S : \A m \in S : n <= m
         IN  << least >> \o Ascending(S \ { least })

\* lines 350, 360, 369: groupby(<period>)["Total Score"].agg(["count", "mean"]),
\* the mean rounded to two decimals
GroupByPeriod(frame, column) ==
    LET keys == Ascending({ PeriodOf(column, frame[i].rec["Audit Date"]) : i \in 1..Len(frame) })
    IN  [ k \in 1..Len(keys) |->
            LET InPeriod(row) == PeriodOf(column, row.rec["Audit Date"]) = keys[k]
                group == SelectSeq(frame, InPeriod)
            IN  [ Period        |-> keys[k],
                  Total_Audits  |-> Len(NumericValues(TotalScores(group))),
                  Average_Score |->
                      LET nums == NumericValues(TotalScores(group))
                      IN  IF nums = << >> THEN NaN
                          ELSE [ nan |-> FALSE,
                                 val |-> Round2(SumOf(nums), Len(nums)) ] ] ]

\* lines 311-372: grouped_day, grouped_week and grouped_month
TimeSummary(frame) ==
    [ day   |-> GroupByPeriod(frame, "Day"),
      week  |-> GroupByPeriod(frame, "Week"),
      month |-> GroupByPeriod(frame, "Month") ]

-----------------------------------------------------------------------------
(* The dashboard model: the script of src/Quality_Audit.py run once, step  *)
(* by step, over a bucket drawn from bounded sets.                         *)

\* lines 346-350 and json.dumps: a result of the audit form as it is stored
StoredResult(r) ==
    ("Parameter" :> r.Parameter)
        @@ ("Selected Reasons" :> ReasonText(r.Selected_Reasons))
        @@ ("Score" :> r.Score)

\* a stored record with the keys the dashboard reads
Fields(date, total, ztp, agent, auditor, params) ==
    ("Audit Date" :> date) @@ ("Total Score" :> total) @@ ("ZTP Violation" :> ztp)
        @@ ("Associate Name" :> agent) @@ ("Auditor Name" :> auditor)
        @@ ("Parameters" :> params)

\* the record without one of its keys
Without(record, key) == [ k \in DOMAIN record \ { key } |-> record[k] ]

\* lines 442-468 of src/app.py: the record the audit form stores for the
\* selection sel and the ZTP flag ztp
FormRecord(sel, ztp, date, agent, auditor) ==
    LET out == RunScoring(SessionRules, sel)
    IN  Fields(date, Num(FinalScoreDisplay(ztp, out.fatal_error, out.total_score)),
               ztp, agent, auditor,
               ParamList([ i \in 1..Len(out.results) |-> Item(StoredResult(out.results[i])) ]))
            @@ ("Team Lead" :> "Kiran") @@ ("Audit Type" :> "Hygiene")

\* a parameter result of an older record, with the key the dashboard asks for
ScoredResult(param, reasons, score) ==
    Item(("Parameter" :> param) @@ ("Selected Reasons Scored" :> reasons) @@ ("Score" :> score))

JsonObject(fields) == [ kind |-> "object", fields |-> fields ]
NotJson == [ kind |-> "invalid", fields |-> << >> ]
JsonArray == [ kind |-> "array", fields |-> << >> ]

\* three audit days: two in one week and different months, two in one month
\* and different weeks
Jan31 == DateText(1, 31)
Feb02 == DateText(2, 2)
Feb05 == DateText(2, 5)

\* blobs a bucket may hold: text that is no JSON, JSON that is no object, a
\* record of the audit form, older records (reasons under the other key, a
\* score that is no number, a date that is missing or no date, results that
\* are no objects or lack a key, parameters kept as a string or null), and
\* records under names the loader passes over
DashBlobs ==
    << [ name |-> BlobName("archive_", 1, ".json"), content |-> NotJson ],
       [ name |-> BlobName("export_", 2, ".json"), content |-> JsonArray ],
       [ name |-> BlobName("archive_", 3, ".json"),
         content |-> JsonObject(
             Fields(Feb02, OtherText, "Yes", "Asha", "Meena",
                    ParamList(<< ScoredResult("Opening and Closing",
                                     ReasonText(<< Compliant, ", ", ReasonA >>), 6),
                                 NoDict,
                                 ScoredResult("Right action taken",
                                     ReasonText(<< ReasonA, ", ", ReasonB >>), 0),
                                 Item(("Parameter" :> "PCIR")
                                        @@ ("Selected Reasons Scored" :> ReasonText(<< ReasonB >>))) >>))) ],
       [ name |-> BlobName("archive_", 4, ".json"),
         content |-> JsonObject(
             Without(Fields(NoValue, Num(90), "Yes", "Bela", "Meena", ParamNull), "Audit Date")) ],
       [ name |-> BlobName("archive_", 5, ".json"),
         content |-> JsonObject(
             Fields(DateText(2, 30), Num(50), "No", "Bela", "Ravi", ParamText(FALSE, << >>))) ],
       [ name |-> BlobName("archive_", 6, ".json"),
         content |-> JsonObject(
             Fields(Feb05, NumText(80), "No", "Bela", "Ravi",
                    ParamText(TRUE,
                        << ScoredResult("Opening and Closing",
                               ReasonText(<< ReasonA, ",", ReasonB >>), 0),
                           ScoredResult("Right action taken", ReasonList(<< Compliant >>), 0),
                           ScoredResult("PCIR", ReasonText(<< Compliant >>), 0) >>))) ],
       [ name |-> BlobName("archive_", 7, ".json"),
         content |-> JsonObject(
             Fields(Feb05, NoScore, "No", "Asha", "Ravi", ParamText(FALSE, << >>))) ],
       [ name |-> BlobName("audit_", 1, ".json"),
         content |-> JsonObject(
             FormRecord([ DefaultSelection(SessionRules)
                            EXCEPT !["Opening and Closing"] = << ReasonA >> ],
                        "No", Jan31, "Asha", "Ravi")) ],
       [ name |-> BlobName("export_", 1, ".txt"),
         content |-> JsonObject(
             Fields(Jan31, Num(10), "Yes", "Asha", "Ravi", ParamList(<< >>))) ],
       [ name |-> BlobName(".keep_", 1, ".json"),
         content |-> JsonObject(
             Fields(Jan31, Num(20), "Yes", "Asha", "Ravi", ParamList(<< >>))) ] >>

DashBucketOf(I) ==
    [ n \in { DashBlobs[i].name : i \in I } |->
        DashBlobs[CHOOSE i \in I : DashBlobs[i].name = n].content ]

DashBuckets ==
    { DashBucketOf(I) :
        I \in { J \in SUBSET (1..Len(DashBlobs)) : Cardinality(J) <= MaxRecords } }

InitDash ==
    /\ scoring_rules = SessionRules
    /\ selected = DefaultSelection(scoring_rules)
    /\ ztp_flag = "No"
    /\ LET out == RunScoring(scoring_rules, selected)
       IN  /\ total_score = out.total_score
           /\ fatal_error = out.fatal_error
           /\ results = out.results
           /\ final_score_display = FinalScoreDisplay(ztp_flag, out.fatal_error, out.total_score)
           /\ overall_score = OverallScore(ztp_flag, out.fatal_error, out.total_score)
    /\ logged_in = FALSE
    /\ email_sent = FALSE
    /\ entity_check = "None"
    /\ associate_email = << >>
    /\ form_submitted = FALSE
    /\ entity_id = << >>
    /\ check_outcome = NoCheck
    /\ submit_outcome = "none"
    /\ read_fault_seen = FALSE
    /\ last_check = "none"
    /\ sent_since = FALSE
    /\ running = "A"
    /\ peer = FreshSession
    /\ race = 0
    /\ bucket \in DashBuckets
    /\ dash_pc = "start"
    /\ load_log = NoLoad
    /\ df_raw = << >>
    /\ df = << >>
    /\ date_range = << >>
    /\ filters = << >>
    /\ df_filtered = << >>
    /\ summary = << >>
    /\ param_records = << >>
    /\ pareto_df = << >>
    /\ grouped = << >>

form_vars == << score_vars, session_vars, server_vars, bucket >>

\* lines 75-80: load_data_from_gcs and the stop on an empty frame
DashLoad(list_ok, unreadable) ==
    /\ dash_pc = "start"
    /\ \E loaded \in { load_data_from_gcs(list_ok, Listing(bucket, unreadable)) } :
          /\ df_raw' = loaded.rows
          /\ load_log' = [ list_ok |-> list_ok, unreadable |-> unreadable,
                           warned |-> loaded.warned ]
          /\ dash_pc' = IF loaded.rows = << >> THEN "stopped" ELSE "loaded"
    /\ UNCHANGED << form_vars, df, date_range, filters, df_filtered, summary,
                    param_records, pareto_df, grouped >>

\* lines 83-95: the cleanup and the stop when no row has a date
DashCleanup ==
    /\ dash_pc = "loaded"
    /\ df' = Cleanup(df_raw)
    /\ dash_pc' = IF df' = << >> THEN "stopped" ELSE "cleaned"
    /\ UNCHANGED << form_vars, load_log, df_raw, date_range, filters, df_filtered,
                    summary, param_records, pareto_df, grouped >>

\* line 108: the values the date_input may hold.  The widget starts at the
\* first and the last audit day and takes any day: the auditor may clear it
\* (the empty tuple), pick one day, or pick a first and a last day, among
\* them days on which the frame has no audit.  The days drawn are the
\* audit days of the frame and the day after each of them, which is a day
\* between two audit days or a day after the last.
DateRanges(frame) ==
    LET audit_days == { frame[i].rec["Audit Date"].day : i \in 1..Len(frame) }
        days == audit_days \cup { d + 1 : d \in audit_days }
    IN  { << >> } \cup { << a >> : a \in days }
            \cup { pair \in { << a, b >> : a \in days, b \in days } : pair[1] <= pair[2] }

\* lines 100-123: the date filter and the stop on an empty frame
DashDateFilter(range) ==
    /\ dash_pc = "cleaned"
    /\ date_range' = range
    /\ df' = DateFilter(df, range)
    /\ dash_pc' = IF df' = << >> THEN "stopped" ELSE "dated"
    /\ UNCHANGED << form_vars, load_log, df_raw, filters, df_filtered, summary,
                    param_records, pareto_df, grouped >>

\* lines 127-157: the four selectboxes, the filters and the stop on an empty
\* frame
DashFilter(chosen) ==
    /\ dash_pc = "dated"
    /\ filters' = chosen
    /\ df_filtered' = ApplyFilters(df, chosen, 1)
    /\ dash_pc' = IF df_filtered' = << >> THEN "stopped" ELSE "filtered"
    /\ UNCHANGED << form_vars, load_log, df_raw, df, date_range, summary,
                    param_records, pareto_df, grouped >>

\* lines 163-172: the score summary
DashSummary ==
    /\ dash_pc = "filtered"
    /\ summary' = ScoreSummary(df_filtered)
    /\ dash_pc' = "summarised"
    /\ UNCHANGED << form_vars, load_log, df_raw, df, date_range, filters,
                    df_filtered, param_records, pareto_df, grouped >>

\* lines 207-293: the parameter analysis and the Pareto table
DashParameterAnalysis ==
    /\ dash_pc = "summarised"
    /\ \E out \in { ParameterAnalysis(df_filtered) } :
          /\ param_records' = out.param_records
          /\ pareto_df' = IF out.param_records # << >>
                          THEN ParetoTable(out.failure_reasons_list)
                          ELSE << >>
    /\ dash_pc' = "analysed"
    /\ UNCHANGED << form_vars, load_log, df_raw, df, date_range, filters,
                    df_filtered, summary, grouped >>

\* lines 299-372: the daily, weekly and monthly summaries
DashTimeSummary ==
    /\ dash_pc = "analysed"
    /\ grouped' = TimeSummary(df_filtered)
    /\ dash_pc' = "done"
    /\ UNCHANGED << form_vars, load_log, df_raw, df, date_range, filters,
                    df_filtered, summary, param_records, pareto_df >>

\* what the four selectboxes may hold: "All" or a value of the column
FilterChoices(frame) ==
    { chosen \in [ Range(FilterColumns) ->
                     UNION { FilterOptions(frame, c) : c \in Range(FilterColumns) } ] :
        \A c \in Range(FilterColumns) : chosen[c] \in FilterOptions(frame, c) }

NextDash ==
    \/ \E list_ok \in BOOLEAN, unreadable \in ReadFaults(bucket) :
          DashLoad(list_ok, unreadable)
    \/ DashCleanup
    \/ dash_pc = "cleaned" /\ \E range \in DateRanges(df) : DashDateFilter(range)
    \/ dash_pc = "dated" /\ \E chosen \in FilterChoices(df) : DashFilter(chosen)
    \/ DashSummary
    \/ DashParameterAnalysis
    \/ DashTimeSummary

SpecDash == InitDash /\ [][NextDash]_vars

-----------------------------------------------------------------------------
(* Claims about the scoring engine, checked under SpecScore *)

\* the entry of results for parameter p
ResultOf(p) == results[CHOOSE i \in 1..Len(results) : results[i].Parameter = p]

\* the rows of p's table whose sub-reason is in the set S
RowsIn(sub_dict, S) == { i \in 1..Len(sub_dict) : sub_dict[i].sub \in S }

\* the sum of the deductions of the rows with index in I
RECURSIVE SumDeductions(_, _)
SumDeductions(sub_dict, I) ==
    IF I = { } THEN 0
    ELSE LET i == CHOOSE j \in I : TRUE
         IN  sub_dict[i].score + SumDeductions(sub_dict, I \ { i })

\* the sum of the Score entries of a results list
RECURSIVE SumScores(_)
SumScores(res) ==
    IF res = << >> THEN 0 ELSE Head(res).Score + SumScores(Tail(res))

\* S holds only sub-reasons of the table that are neither "Compliant" nor fatal
DeductionOnly(sub_dict, S) ==
    /\ Compliant \notin S
    /\ \A r \in S : \E i \in 1..Len(sub_dict) :
          sub_dict[i].sub = r /\ ~sub_dict[i].fatal

\* C1: for every parameter whose selection holds only non-fatal, non-Compliant
\* sub-reasons, the score the loop computed is the maximum score less the sum
\* of the deductions of the selected reasons, and 0 when that is negative.
C1_DeductionScore ==
    \A p \in ParamsOf(scoring_rules) :
        LET sub_dict == SubDictOf(scoring_rules, p)
            S        == Range(selected[p])
            expected == parameter_scores(p) - SumDeductions(sub_dict, RowsIn(sub_dict, S))
        IN  DeductionOnly(sub_dict, S) =>
                ResultOf(p).Score = (IF expected < 0 THEN 0 ELSE expected)

\* the scenario of the spec (9 less 3 is 6), next to a parameter where the
\* two deductions add up to more than its maximum
C1_Witness ==
    /\ "Opening and Closing" \in ParamsOf(scoring_rules)
    /\ selected["Opening and Closing"] = << ReasonA >>
    /\ ResultOf("Opening and Closing").Score = 6
    /\ \E q \in ParamsOf(scoring_rules) :
          /\ selected[q] = << ReasonA, ReasonB >>
          /\ DeductionOnly(SubDictOf(scoring_rules, q), { ReasonA, ReasonB })
          /\ SubInfo(SubDictOf(scoring_rules, q), ReasonB).score = MaxDeduction
          /\ ResultOf(q).Score = 0

\* C2: a parameter whose selection is exactly {"Compliant"} scores its
\* maximum, and fatal_error is then never due to it: it is set only when some
\* other parameter's selection is not exactly {"Compliant"}.
C2_CompliantIsMax ==
    \A p \in ParamsOf(scoring_rules) :
        Range(selected[p]) = { Compliant } =>
            /\ ResultOf(p).Score = parameter_scores(p)
            /\ fatal_error =>
                  \E q \in ParamsOf(scoring_rules) \ { p } :
                      Range(selected[q]) # { Compliant }

\* a compliant parameter keeps its 9 points while another parameter's
\* selection raises the fatal error
C2_Witness ==
    \E p \in ParamsOf(scoring_rules) :
        /\ selected[p] = << Compliant >>
        /\ ResultOf(p).Score = 9
        /\ fatal_error
        /\ \E q \in ParamsOf(scoring_rules) \ { p } : selected[q] = << ReasonB >>

\* C3: fatal_error holds whenever the selection of "Right action taken" or of
\* "Correct and Complete Resolution" is not exactly {"Compliant"}.
C3_KeyParamDeviationIsFatal ==
    \A p \in ParamsOf(scoring_rules) \cap KeyParams :
        Range(selected[p]) # { Compliant } => fatal_error

\* C4: a step that adds a fatal-flagged sub-reason to the selection of any
\* parameter ends with fatal_error true, whatever it was before and whatever
\* else is selected.
C4_FatalMonotonic ==
    [][ \A p \in ParamsOf(scoring_rules) :
          LET sub_dict == SubDictOf(scoring_rules, p)
          IN  (\E i \in 1..Len(sub_dict) :
                  /\ sub_dict[i].fatal
                  /\ sub_dict[i].sub \notin Range(selected[p])
                  /\ Range(selected'[p]) = Range(selected[p]) \cup { sub_dict[i].sub })
              => fatal_error'
      ]_vars

\* a fatal-flagged reason that deducts nothing is selected next to
\* "Compliant" in a parameter that is not fatal-designated
C4_Witness ==
    \E p \in ParamsOf(scoring_rules) \ KeyParams :
        /\ selected[p] = << Compliant, ReasonB >>
        /\ SubInfo(SubDictOf(scoring_rules, p), ReasonB) = [ score |-> 0, fatal |-> TRUE ]
        /\ ResultOf(p).Score = parameter_scores(p)
        /\ fatal_error

\* C5: the displayed score is 0 tagged "ZTP" when the ZTP flag is "Yes";
\* otherwise 0 tagged "Fatal" when fatal_error holds; otherwise total_score,
\* which is the sum of the parameter scores.
C5_DisplayPrecedence ==
    /\ total_score = SumScores(results)
    /\ IF ztp_flag = "Yes"
       THEN overall_score = [ tag |-> "ZTP", value |-> 0 ] /\ final_score_display = 0
       ELSE IF fatal_error
            THEN overall_score = [ tag |-> "Fatal", value |-> 0 ] /\ final_score_display = 0
            ELSE /\ overall_score = [ tag |-> "Score", value |-> total_score ]
                 /\ final_score_display = total_score

\* ZTP wins over a fatal error while the parameter scores add up to more
C5_Witness ==
    /\ ztp_flag = "Yes"
    /\ fatal_error
    /\ total_score > 0
    /\ overall_score.tag = "ZTP"

\* C6: a parameter with nothing selected gives the outcome it gives with
\* exactly "Compliant" selected: score, fatal_error and displayed score.
C6_EmptyIsCompliant ==
    \A p \in ParamsOf(scoring_rules) :
        selected[p] = << >> =>
            LET alt == RunScoring(scoring_rules, [ selected EXCEPT ![p] = << Compliant >> ])
            IN  /\ ResultOf(p).Score = parameter_scores(p)
                /\ fatal_error = alt.fatal_error
                /\ total_score = alt.total_score
                /\ overall_score = OverallScore(ztp_flag, alt.fatal_error, alt.total_score)

\* C7: every parameter score is between 0 and the parameter's maximum, so a
\* parameter whose maximum is 0 scores 0 (the deductions of the tables are
\* not negative).
C7_ScoreInRange ==
    /\ \A i \in 1..Len(scoring_rules) :
          \A j \in 1..Len(scoring_rules[i].sub_dict) :
              scoring_rules[i].sub_dict[j].score >= 0
    /\ \A p \in ParamsOf(scoring_rules) :
          /\ ResultOf(p).Score \in 0..parameter_scores(p)
          /\ parameter_scores(p) = 0 => ResultOf(p).Score = 0

\* the deductions exceed a positive maximum, and a parameter of maximum 0
\* has a deduction selected
C7_Witness ==
    /\ \E p \in ParamsOf(scoring_rules) :
          /\ parameter_scores(p) > 0
          /\ parameter_scores(p) < 3 + MaxDeduction
          /\ selected[p] = << ReasonA, ReasonB >>
          /\ SubInfo(SubDictOf(scoring_rules, p), ReasonB).score = MaxDeduction
          /\ ResultOf(p).Score = 0
    /\ \E p \in ParamsOf(scoring_rules) :
          /\ parameter_scores(p) = 0
          /\ selected[p] = << ReasonA >>
          /\ ResultOf(p).Score = 0

-----------------------------------------------------------------------------
(* Claims about the record store and the duplicate checker *)

\* the records of a bucket: the blobs the audit form and the checker read
Records(bkt) == { n \in DOMAIN bkt : EndsWithJson(n) /\ bkt[n].kind = "object" }

\* two texts are equal after trimming blanks and lower-casing
SameKeyText(s, t) == Lower(Strip(s)) = Lower(Strip(t))

\* no two records carry the same (ticket id, associate email) key
NoDuplicateKeys ==
    \A n1, n2 \in Records(bucket) :
        n1 # n2 =>
            ~ ( /\ SameKeyText(TicketOf(bucket[n1]), TicketOf(bucket[n2]))
                /\ SameKeyText(EmailOf(bucket[n1]), EmailOf(bucket[n2])) )

\* C8: in one session, after any sequence of lookups, ticket id edits,
\* duplicate checks, emails, submissions and "submit another", the bucket
\* never holds two records with the same key after trimming and
\* lower-casing.  Stated for runs in which every check read every blob.
C8_UniqueKeys == ~read_fault_seen => NoDuplicateKeys

\* some record of the bucket has the key (ticket, email)
KeyStored(bkt, ticket, email) ==
    \E n \in Records(bkt) :
        /\ SameKeyText(TicketOf(bkt[n]), ticket)
        /\ SameKeyText(EmailOf(bkt[n]), email)

\* C9: with every blob listed and read, is_duplicate_entity is true exactly
\* when some record has both the ticket id and the associate email of the
\* arguments, compared after trimming and lower-casing; arguments that differ
\* only in case or surrounding blanks give the same result; and the check
\* button reports that result.
C9_DuplicateIffKeyStored ==
    LET blobs == Listing(bucket, { })
        dup   == is_duplicate_entity(entity_id, associate_email, blobs)
    IN  /\ dup = KeyStored(bucket, entity_id, associate_email)
        /\ \A t \in TicketTexts :
              SameKeyText(t, entity_id)
                  => is_duplicate_entity(t, associate_email, blobs) = dup
        /\ \A e \in WorkEmails :
              SameKeyText(e, associate_email)
                  => is_duplicate_entity(entity_id, e, blobs) = dup
        /\ ( /\ check_outcome.result \in { "duplicate", "unique" }
             /\ ~check_outcome.read_failed )
               => (check_outcome.result = "duplicate") = dup

\* the check reports a duplicate for a key stored in another case and with
\* other blanks, next to a record that shares the ticket id only
C9_Witness ==
    /\ check_outcome = CheckOutcome("duplicate", FALSE, FALSE)
    /\ entity_id = << "a" >>
    /\ associate_email = << "X", " " >>
    /\ \E n \in Records(bucket) :
          bucket[n].ticket = << "A", " " >> /\ bucket[n].email = << "x" >>
    /\ \E n \in Records(bucket) :
          bucket[n].ticket = << "a" >> /\ ~bucket[n].has_email

\* C10: a check during which the listing or the download of a listed blob
\* failed does not answer "no duplicate" and does not set entity_check to
\* True.
C10_FaultIsNotUnique ==
    (check_outcome.list_failed \/ check_outcome.read_failed) =>
        /\ check_outcome.result # "unique"
        /\ entity_check # "True"

-----------------------------------------------------------------------------
(* Claims about the submission gate and the sessions *)

\* the blobs of bkt are all in bkt2, with the same content
KeepsBlobs(bkt, bkt2) ==
    \A n \in DOMAIN bkt : n \in DOMAIN bkt2 /\ bkt2[n] = bkt[n]

\* C11: a step of a session changes the bucket only when the session's
\* email_sent flag is true and the last check that gave a result in the
\* session since login, the last upload or "Submit Another" answered "no
\* duplicate"; a Submit Audit click made when that last result is "duplicate"
\* or when there is none uploads nothing.
C11_SubmitNeedsEmailAndUniqueCheck ==
    [][ /\ bucket' # bucket =>
              /\ email_sent
              /\ last_check = "unique"
        /\ ( /\ running' = running
             /\ last_check \in { "duplicate", "none" } )
           => /\ bucket' = bucket
              /\ submit_outcome' # "uploaded"
      ]_vars

\* C12: when session A checks a key the bucket does not hold, session B then
\* checks the same key, and then A and B click Submit Audit in that order
\* (emails sent, all blobs read, uploads going through, the second under a
\* name of its own), both checks answer "no duplicate" and the bucket ends
\* with two records of that key.
C12_CheckThenActRace ==
    /\ race = 2 => SessionOf("A").entity_check = "True"
    /\ race \in { 2, 3 } =>
          /\ SessionOf("B").entity_check = "True"
          /\ SessionOf("B").last_check = "unique"
    /\ race = 3 =>
          KeyInBucket(bucket, SessionOf("B").entity_id, SessionOf("B").associate_email)
    /\ race = 4 =>
          \E n1, n2 \in DOMAIN bucket :
              /\ n1 # n2
              /\ SameText(TicketOf(bucket[n1]), TicketOf(bucket[n2]))
              /\ SameText(EmailOf(bucket[n1]), EmailOf(bucket[n2]))

\* the four clicks have happened in that order, no download ever failed, and
\* the bucket holds two records of one ticket and one associate, the one
\* uploaded second listed first
C12_Witness ==
    /\ race = 4
    /\ ~read_fault_seen
    /\ Cardinality(DOMAIN bucket) = 2
    /\ running = "B" /\ submit_outcome = "uploaded"
    /\ \E n1, n2 \in DOMAIN bucket :
          /\ NameBefore(n1, n2)
          /\ n1.id \div 2 = n2.id \div 2
          /\ bucket[n1].email = bucket[n2].email
          /\ bucket[n1].ticket = bucket[n2].ticket
          /\ bucket[n1].ticket # << >>

\* C13: a Submit Audit click whose upload succeeds adds exactly one blob, the
\* audit entry of the form, and changes no other blob; a click whose upload
\* fails leaves the bucket and the flags email_sent, entity_check and
\* form_submitted as they were, with the form shown and Submit Audit still
\* open to the same submission.
C13_SubmitAllOrNothing ==
    [][ running' = running =>
          /\ submit_outcome' = "uploaded" =>
                /\ KeepsBlobs(bucket, bucket')
                /\ \E n \in DOMAIN bucket' \ DOMAIN bucket :
                      /\ DOMAIN bucket' = DOMAIN bucket \cup { n }
                      /\ bucket'[n] = AuditEntry
          /\ submit_outcome' = "upload_failed" =>
                /\ bucket' = bucket
                /\ email_sent' = email_sent
                /\ entity_check' = entity_check
                /\ form_submitted' = form_submitted
                /\ entity_id' = entity_id
                /\ ~form_submitted' /\ email_sent' /\ entity_check' = "True"
      ]_vars

\* C14: no step of any session removes a blob or changes the content of a
\* blob; an upload goes to a name the bucket does not hold yet.
C14_AppendOnly ==
    [][ /\ KeepsBlobs(bucket, bucket')
        /\ bucket' # bucket =>
              Cardinality(DOMAIN bucket') = Cardinality(DOMAIN bucket) + 1
      ]_vars

\* C20: the step that uploads a record leaves email_sent false, entity_check
\* None and the form hidden; while the form is hidden nothing is uploaded;
\* "Submit Another" shows the form again with the associate cleared and the
\* login kept; and every upload of the session comes after a Send Email and
\* a check answering "no duplicate" that are later than its previous upload.
C20_FreshEmailAndCheckPerRecord ==
    [][ running' = running =>
          /\ bucket' # bucket =>
                /\ sent_since
                /\ last_check = "unique"
                /\ ~email_sent' /\ entity_check' = "None" /\ form_submitted'
                /\ ~sent_since' /\ last_check' = "none"
          /\ form_submitted => bucket' = bucket
          /\ (form_submitted /\ ~form_submitted') =>
                /\ associate_email' = << >>
                /\ logged_in'
                /\ ~email_sent' /\ entity_check' = "None"
      ]_vars

-----------------------------------------------------------------------------
(* Claims about the dashboard, checked under SpecDash *)

\* the script has computed the summary, the parameter tables, the trends
Summarised == dash_pc \in { "summarised", "analysed", "done" }
Analysed == dash_pc \in { "analysed", "done" }

\* a parameter result with a parameter, a score and its reasons under one of
\* the two keys
WellFormedResult(p) ==
    /\ p.is_dict
    /\ { "Parameter", "Score" } \subseteq DOMAIN p.fields
    /\ { "Selected Reasons", "Selected Reasons Scored" } \cap DOMAIN p.fields # { }

\* the number of well-formed results in a list of items
WellFormedIn(items) == Cardinality({ i \in 1..Len(items) : WellFormedResult(items[i]) })

\* the sum of f over the numbers 1..n
RECURSIVE SumUpTo(_, _)
SumUpTo(f, n) == IF n = 0 THEN 0 ELSE f[n] + SumUpTo(f, n - 1)

\* C15: the per-parameter table has one row for each well-formed parameter
\* result of each matching record, whether the reasons are stored under
\* "Selected Reasons" or under "Selected Reasons Scored".
C15_OneRowPerResult ==
    Analysed =>
        Len(param_records) =
            SumUpTo([ i \in 1..Len(df_filtered) |->
                        WellFormedIn(ParametersData(df_filtered[i].rec["Parameters"])) ],
                    Len(df_filtered))

\* the reasons of a stored reasons text: the parts between commas, trimmed
ReasonSet(reasons) ==
    IF reasons.is_str
    THEN { Strip(part) : part \in Range(SplitAt(Expand(reasons.text), 1, << >>, FALSE)) }
             \ { << >> }
    ELSE { Spell(name) : name \in Range(reasons.text) }

\* the results the frequency table reads, over all matching records
ScoredResults ==
    UNION { { [ row |-> i, item |-> j ] :
                j \in { k \in 1..Len(ParametersData(df_filtered[i].rec["Parameters"])) :
                          HasRequiredKeys(ParametersData(df_filtered[i].rec["Parameters"])[k]) } } :
            i \in 1..Len(df_filtered) }

ReasonsAt(x) ==
    ReasonSet(ParametersData(df_filtered[x.row].rec["Parameters"])[x.item]
                  .fields["Selected Reasons Scored"])

\* the occurrences the claim asks for a reason
ExpectedCount(reason) ==
    Cardinality({ x \in ScoredResults :
                    /\ ReasonsAt(x) # { Spell(Compliant) }
                    /\ reason \in ReasonsAt(x) \ { Spell(Compliant) } })

\* C16: in the frequency table the count of a reason is the number of
\* parameter results of matching records whose reason set is not exactly
\* {"Compliant"} and holds the reason; reasons that occur nowhere so have no
\* row; and the rows are in descending order of count.  Stated for the
\* results that carry the key the table reads.
C16_ReasonCounts ==
    (Analysed /\ param_records # << >>) =>
        /\ \A x \in ScoredResults : \A reason \in ReasonsAt(x) \ { Spell(Compliant) } :
              ExpectedCount(reason) > 0 =>
                  \E i \in 1..Len(pareto_df) :
                      /\ pareto_df[i].Reason = reason
                      /\ pareto_df[i].Count = ExpectedCount(reason)
        /\ \A i \in 1..Len(pareto_df) :
              pareto_df[i].Count = ExpectedCount(pareto_df[i].Reason)
        /\ \A i, j \in 1..Len(pareto_df) :
              i < j => pareto_df[i].Count >= pareto_df[j].Count

\* the matching records whose audit date falls in period k
InPeriodRows(column, k) ==
    { i \in 1..Len(df_filtered) : PeriodOf(column, df_filtered[i].rec["Audit Date"]) = k }

\* a trend table has one bucket per period of the matching records, counts
\* the records of the period and averages their numeric scores
TrendIsRight(table, column) ==
    /\ { table[b].Period : b \in 1..Len(table) }
          = { PeriodOf(column, df_filtered[i].rec["Audit Date"]) : i \in 1..Len(df_filtered) }
    /\ \A b1, b2 \in 1..Len(table) : table[b1].Period = table[b2].Period => b1 = b2
    /\ \A b \in 1..Len(table) :
          LET rows == InPeriodRows(column, table[b].Period)
              InBucket(row) == PeriodOf(column, row.rec["Audit Date"]) = table[b].Period
              nums == NumericValues(TotalScores(SelectSeq(df_filtered, InBucket)))
              n == Len(nums)
              h == table[b].Average_Score.val
          IN  /\ table[b].Total_Audits = Cardinality(rows)
              /\ table[b].Average_Score.nan = (nums = << >>)
              /\ nums # << >> =>
                    /\ 2 * n * h <= 200 * SumOf(nums) + n
                    /\ 200 * SumOf(nums) + n <= 2 * n * (h + 1)
    /\ SumUpTo([ b \in 1..Len(table) |-> table[b].Total_Audits ], Len(table))
          = summary.total_audits

\* C17: each of the daily, weekly and monthly trends has as many buckets as
\* the matching records have distinct periods, a bucket counts the matching
\* records of its period, the counts add up to the total audit count of the
\* summary, and the bucket mean is the mean of the numeric total scores.
C17_TrendBuckets ==
    dash_pc = "done" =>
        /\ TrendIsRight(grouped.day, "Day")
        /\ TrendIsRight(grouped.week, "Week")
        /\ TrendIsRight(grouped.month, "Month")

\* the loaded records that pass the date range and the filters
Matching ==
    { i \in 1..Len(df_raw) :
        LET ts == to_datetime(df_raw[i].rec["Audit Date"])
        IN  /\ ~ts.nat
            /\ Len(date_range) = 2 => (date_range[1] <= ts.day /\ ts.day <= date_range[2])
            /\ \A c \in Range(FilterColumns) :
                  filters[c] = "All" \/ df_raw[i].rec[c] = filters[c] }

\* the sum of the numeric total scores of the loaded records with index in I
RECURSIVE SumTotals(_)
SumTotals(I) ==
    IF I = { } THEN 0
    ELSE LET i == CHOOSE j \in I : TRUE
         IN  to_numeric(df_raw[i].rec["Total Score"]).val + SumTotals(I \ { i })

\* C18: the total audit count is the number of loaded records with a valid
\* audit date that pass the date range and the filters, whatever their
\* score; the mean is taken over those of them whose score is numeric (shown
\* in hundredths, N/A when there is none); the ZTP count is over the same
\* records; a record without a valid date is in none of the three.
C18_SummaryCounts ==
    Summarised =>
        LET scored == { i \in Matching : ~to_numeric(df_raw[i].rec["Total Score"]).nan }
        IN  /\ summary.total_audits = Cardinality(Matching)
            /\ summary.ztp_count
                  = Cardinality({ i \in Matching : df_raw[i].rec["ZTP Violation"] = "Yes" })
            /\ summary.avg_score.nan = (scored = { })
            /\ scored # { } =>
                  LET n == Cardinality(scored)
                      h == summary.avg_score.val
                  IN  /\ 2 * n * h <= 200 * SumTotals(scored) + n
                      /\ 200 * SumTotals(scored) + n <= 2 * n * (h + 1)

\* a record with the score "N/A", a record with a numeric score and a record
\* without a date are loaded; two audits are counted, one ZTP case, and the
\* mean is the one numeric score
C18_Witness ==
    /\ Summarised
    /\ Len(df_raw) = 3
    /\ \E i \in 1..Len(df_raw) : df_raw[i].rec["Audit Date"].kind = "none"
    /\ \E i \in Matching : df_raw[i].rec["Total Score"] = OtherText
    /\ summary.total_audits = 2
    /\ summary.ztp_count = 1
    /\ summary.avg_score = [ nan |-> FALSE, val |-> 600 ]

\* the listed blobs the loader reads: names ending in ".json" that it does
\* not pass over
Loadable(n) == EndsWithJson(n) /\ ~SkipName(n)

\* C19: when the listing succeeds, the loaded collection is, in listing
\* order, exactly the loadable blobs that were downloaded and hold a JSON
\* object, each with all its stored keys and values; every other loadable
\* blob is warned of, wherever it is listed.
C19_LoadSkipsBadRecords ==
    (dash_pc # "start" /\ load_log.list_ok) =>
        LET Good(n) == /\ Loadable(n)
                       /\ n \notin load_log.unreadable
                       /\ bucket[n].kind = "object"
            Bad(n) == Loadable(n) /\ ~Good(n)
            names == ListBlobs(DOMAIN bucket)
        IN  /\ [ i \in 1..Len(df_raw) |-> df_raw[i].blob ] = SelectSeq(names, Good)
            /\ load_log.warned = SelectSeq(names, Bad)
            /\ \A i \in 1..Len(df_raw) :
                  \A k \in DOMAIN bucket[df_raw[i].blob].fields :
                      df_raw[i].rec[k] = bucket[df_raw[i].blob].fields[k]

\* text that is no JSON is listed before two records and JSON that is no
\* object is listed behind one of them; every download succeeds
C19_Witness ==
    /\ dash_pc = "loaded"
    /\ load_log.list_ok /\ load_log.unreadable = { }
    /\ Len(df_raw) = 1
    /\ Len(load_log.warned) = 2
    /\ bucket[load_log.warned[1]].kind = "invalid"
    /\ NameBefore(load_log.warned[1], df_raw[1].blob)
    /\ NameBefore(df_raw[1].blob, load_log.warned[2])

-----------------------------------------------------------------------------
(* Claim about the score of a stored record, checked under SpecForm *)

\* the scoring loop run on the form as the submitting run of the script
\* finds it
FormScoring == RunScoring(scoring_rules, selected)

\* C21: the "Total Score" of every record written is the displayed score of
\* the form at the time of the submission, not the raw sum: it is 0 when the
\* record's "ZTP Violation" is "Yes" or a fatal condition held, and otherwise
\* the sum of the "Score" values of the record's "Parameters" entries.
C21_TotalScoreIsDisplayedScore ==
    [][ \A n \in { m \in DOMAIN bucket' : m \in DOMAIN bucket => bucket'[m] # bucket[m] } :
          /\ bucket'[n].ztp = ztp_flag
          /\ bucket'[n].params = FormScoring.results
          /\ bucket'[n].total = final_score_display
          /\ bucket'[n].total = overall_score.value
          /\ IF bucket'[n].ztp = "Yes" \/ FormScoring.fatal_error
             THEN bucket'[n].total = 0
             ELSE bucket'[n].total = SumScores(bucket'[n].params)
      ]_vars

\* the store holds a record written with "ZTP Violation" "No" under a fatal
\* condition: its score is 0 though its parameter scores add up to more
C21_Witness ==
    \E n \in AuditNames(bucket) :
        /\ bucket[n].ztp = "No"
        /\ bucket[n].total = 0
        /\ SumScores(bucket[n].params) > 0
        /\ form_submitted

====
